---- MODULE Spec2Model ----
(***************************************************************************)
(* grid-x/modbus: the MBAP (Modbus TCP) packager and the TCP transport     *)
(* with its idle-close timer and its two recovery loops                    *)
(* (src/tcpclient.go, the revision that starts at line 369), driven by     *)
(* the client facade's send (src/client.go).                              *)
(*                                                                         *)
(* The inbound side of the connection is a byte stream: the transport      *)
(* parses the MBAP header out of it with big-endian reads, exactly as the  *)
(* code does.  The server and the network are the environment: they may    *)
(* answer late, answer with malformed frames, or close the connection.     *)
(* Time is kept relative to the last tick of the clock, in half ticks:     *)
(* durations are whole ticks, and a statement that reads the clock reads   *)
(* it half a tick after the instants kept earlier, so that deadlines       *)
(* compare the way time.Since / time.Until do in the code.                 *)
(***************************************************************************)
EXTENDS Integers, Sequences, FiniteSets, TLC

\* ------------------------------------------------------------ constants

tcpProtocolIdentifier == 0
tcpHeaderSize == 7
tcpMaxLength == 260
FuncCodeReadInputRegisters == 4

Pow16 == 65536

\* ------------------------------------------------------------ bounds

\* Client operations (facade calls, Connect, Close) one caller issues in one
\* behaviour.
MaxCalls == 1
\* Environment faults in one behaviour: malformed or odd frames, server
\* closes, failed dials, failed writes, failed closes.
MaxFaults == 1
\* Frames one Send writes (its first write and its resends).
MaxWrites == 2

\* ------------------------------------------------------------ configuration

\* Durations are in half ticks of the clock; a tick is two of them.
\* tcpTransporter.Timeout
Timeouts == {2}
\* tcpTransporter.IdleTimeout: 0 disables the idle timer.
IdleTimeouts == {0, 2}
\* tcpTransporter.LinkRecoveryTimeout
LinkRecoveryTimeouts == {0, 2}
\* tcpTransporter.ProtocolRecoveryTimeout
ProtocolRecoveryTimeouts == {0, 2}
\* tcpPackager.SlaveID of the handler under test.
SlaveID == 1

\* The goroutines that call into one handler; Callers is the one that calls
\* when the calls come one after another.
Procs == {"c1", "c2"}
Callers == {"c1"}
NoProc == "none"
Timer == "timer"

\* ------------------------------------------------------------ bytes

PutUint16(v) == << (v \div 256) % 256, v % 256 >>

Uint16(b, i) == b[i] * 256 + b[i + 1]

Fill(n, v) == [i \in 1..n |-> v]

Take(s, n) == IF n >= Len(s) THEN s ELSE SubSeq(s, 1, n)

Drop(s, n) == IF n >= Len(s) THEN << >> ELSE SubSeq(s, n + 1, Len(s))

\* ------------------------------------------------------------ MBAP packager

\* The 32-bit counter is kept as its two 16-bit halves, counter = hi * 2^16 + lo.
\* uint16(counter)
Low16(counter) == counter.lo

\* A counter that is read and not incremented.
SameTransactionID(counter) == counter

\* atomic.AddUint32(&mb.transactionID, 1): the new value of the 32-bit counter.
NextTransactionID(counter) ==
    [lo |-> (counter.lo + 1) % Pow16,
     hi |-> IF counter.lo + 1 = Pow16 THEN (counter.hi + 1) % Pow16 ELSE counter.hi]

\* A packager that leaves the transaction id field zero.
EncodeZero(newCounter, slaveID, fc, pduData) ==
    PutUint16(0)
    \o PutUint16(tcpProtocolIdentifier)
    \o PutUint16((1 + 1 + Len(pduData)) % Pow16)
    \o << slaveID, fc >>
    \o pduData

\* A packager whose length field leaves the unit identifier out.
EncodeShort(newCounter, slaveID, fc, pduData) ==
    PutUint16(Low16(newCounter))
    \o PutUint16(tcpProtocolIdentifier)
    \o PutUint16((1 + Len(pduData)) % Pow16)
    \o << slaveID, fc >>
    \o pduData

\* tcpPackager.Encode: the ADU of a PDU (fc, data) for the counter value
\* that the atomic add returned.
Encode(newCounter, slaveID, fc, pduData) ==
    PutUint16(Low16(newCounter))
    \o PutUint16(tcpProtocolIdentifier)
    \o PutUint16((1 + 1 + Len(pduData)) % Pow16)
    \o << slaveID, fc >>
    \o pduData

\* The request PDU of ReadInputRegisters(0, 1).
RequestData == << 0, 0, 0, 1 >>

NoErr == "nil"
ErrDial == "dial"
ErrWrite == "write"
ErrTimeout == "timeout"
ErrEOF == "EOF"
ErrUnexpectedEOF == "UnexpectedEOF"
ErrTCPHeaderLength == "ErrTCPHeaderLength"
errTransactionIDMismatch == "errTransactionIDMismatch"
ErrProtocolID == "protocol id"
ErrUnitID == "unit id"
ErrClose == "close"

\* A verify that stops after the transaction id.
verifyTransactionOnly(aduRequest, aduResponse) ==
    IF Uint16(aduResponse, 1) # Uint16(aduRequest, 1) THEN errTransactionIDMismatch
    ELSE NoErr

\* verify: transaction id, then protocol id, then unit id.
verify(aduRequest, aduResponse) ==
    IF Uint16(aduResponse, 1) # Uint16(aduRequest, 1) THEN errTransactionIDMismatch
    ELSE IF Uint16(aduResponse, 3) # Uint16(aduRequest, 3) THEN ErrProtocolID
    ELSE IF aduResponse[7] # aduRequest[7] THEN ErrUnitID
    ELSE NoErr

\* Length checks that let a length of 255 through.
HeaderLengthRejectedOffByOne(length) ==
    length <= 0 \/ length > (tcpMaxLength - (tcpHeaderSize - 1)) + 1

\* processResponse: the two length checks on the header's length field.
HeaderLengthRejected(length) ==
    length <= 0 \/ length > (tcpMaxLength - (tcpHeaderSize - 1))

\* processResponse: length += tcpHeaderSize - 1; the frame is data[:length].
FrameLength(length) == length + (tcpHeaderSize - 1)

\* processResponse: the body read fills data[tcpHeaderSize:length].
BodyLength(length) == FrameLength(length) - tcpHeaderSize

\* A window without the wrap-around half.
IsLateReplyLinear(got, lastSuccessful, lastAttempted) ==
    got > lastSuccessful /\ got < lastAttempted

\* No window at all: no reply is taken as late.
IsLateReplyNever(got, lastSuccessful, lastAttempted) == FALSE

\* readResponse: the late-reply window of the transaction-id mismatch case.
IsLateReply(got, lastSuccessful, lastAttempted) ==
    \/ (got > lastSuccessful /\ got < lastAttempted)
    \/ (lastAttempted < lastSuccessful
        /\ (got > lastSuccessful \/ got < lastAttempted))

readResultDone == "readResultDone"
readResultRetry == "readResultRetry"
readResultCloseRetry == "readResultCloseRetry"
\* The `continue` of readResponse's own loop: read the next frame.
readAgain == "continue"

\* Every instant the model keeps (a deadline, lastActivity, the timer's
\* firing time) is kept relative to the last tick of the clock.  time.Now()
\* in a statement that sets such an instant reads now.  A statement that
\* compares the clock with a kept instant runs after the one that set it, so
\* it reads later: half a tick on, which no kept instant is equal to.
now == 0

later == now + 1

\* A deadline that is never reached.
DeadlineNever(t, deadline) == FALSE

\* time.Since(recoveryDeadline) >= 0
DeadlineReached(t, deadline) == t - deadline >= 0

\* time.Until(recoveryDeadline) < 0
DeadlinePassed(t, deadline) == deadline - t < 0

\* A branch that takes a failed read of the body for a fault of the link.
FrameErrorResultLink(e, got, t, deadline, lastSuccessful, lastAttempted, linkRT, protoRT) ==
    IF DeadlineReached(t, deadline) THEN readResultDone
    ELSE IF e \in {ErrTimeout, ErrEOF, ErrUnexpectedEOF}
         THEN (IF linkRT > 0 THEN readResultCloseRetry ELSE readResultDone)
    ELSE IF e = ErrTCPHeaderLength
         THEN (IF linkRT > 0 THEN readResultRetry ELSE readResultDone)
    ELSE IF e = errTransactionIDMismatch
         THEN (IF IsLateReply(got, lastSuccessful, lastAttempted) THEN readAgain
               ELSE IF protoRT > 0 THEN readResultRetry
               ELSE readResultDone)
    ELSE (IF protoRT > 0 THEN readResultRetry ELSE readResultDone)

\* readResponse, the branch taken once the 7 header bytes were read and
\* processResponse or verify returned the error e.
FrameErrorResult(e, got, t, deadline, lastSuccessful, lastAttempted, linkRT, protoRT) ==
    IF DeadlineReached(t, deadline) THEN readResultDone
    ELSE IF e = ErrTCPHeaderLength
         THEN (IF linkRT > 0 THEN readResultRetry ELSE readResultDone)
    ELSE IF e = errTransactionIDMismatch
         THEN (IF IsLateReply(got, lastSuccessful, lastAttempted) THEN readAgain
               ELSE IF protoRT > 0 THEN readResultRetry
               ELSE readResultDone)
    ELSE (IF protoRT > 0 THEN readResultRetry ELSE readResultDone)

\* A header-error branch that never asks for close-and-retry.
HeaderErrorResultDone(e, t, deadline, linkRT) == readResultDone

\* A header-error branch that asks for close-and-retry after a timeout too.
HeaderErrorResultAnyError(e, t, deadline, linkRT) ==
    IF linkRT = 0 \/ DeadlinePassed(t, deadline)
    THEN readResultDone
    ELSE readResultCloseRetry

\* readResponse, the branch taken when reading the header failed with e.
HeaderErrorResult(e, t, deadline, linkRT) ==
    IF (e # ErrEOF /\ e # ErrUnexpectedEOF) \/ linkRT = 0 \/ DeadlinePassed(t, deadline)
    THEN readResultDone
    ELSE readResultCloseRetry

Max(a, b) == IF a >= b THEN a ELSE b

Min(a, b) == IF a <= b THEN a ELSE b

\* A startCloseTimer that arms nothing.
startCloseTimerOff(timer, t, idleTimeout) == timer

\* startCloseTimer: AfterFunc or Reset, both arm the timer IdleTimeout from now.
startCloseTimer(timer, t, idleTimeout) ==
    IF idleTimeout <= 0 THEN timer
    ELSE [set |-> TRUE, armed |-> TRUE, at |-> t + idleTimeout]

\* ------------------------------------------------------------ CRC-16

\* The exclusive or of two numbers of n bits.
RECURSIVE Xor(_, _, _)
Xor(a, b, n) ==
    IF n = 0 THEN 0
    ELSE ((a + b) % 2) + 2 * Xor(a \div 2, b \div 2, n - 1)

\* CRC-16 (Modbus): reflected, polynomial 0xA001, initial value 0xFFFF.
CrcPolynomial == 40961
CrcInitial == 65535

\* One bit of the register shifted out, k times.  (The test of the new
\* value against 0 only makes TLC compute it before the next step.)
RECURSIVE CrcShift(_, _)
CrcShift(c, k) ==
    LET shifted == IF c % 2 = 1 THEN Xor(c \div 2, CrcPolynomial, 16) ELSE c \div 2
    IN  IF k = 0 THEN c
        ELSE IF shifted >= 0 THEN CrcShift(shifted, k - 1) ELSE 0

\* What eight shifts make of each byte.
CrcTable == [b \in 0..255 |-> CrcShift(b, 8)]

\* crc.pushByte: one byte into the register c.
CrcPushByte(c, b) == Xor(c \div 256, CrcTable[Xor(c % 256, b, 8)], 16)

\* The bytes i..j of the sequence pushed into the register c, the first
\* half and then the second.
RECURSIVE CrcRange(_, _, _, _)
CrcRange(c, bytes, i, j) ==
    LET m == (i + j) \div 2
        half == CrcRange(c, bytes, i, m)
    IN  IF i > j THEN c
        ELSE IF i = j THEN CrcPushByte(c, bytes[i])
        ELSE IF half >= 0 THEN CrcRange(half, bytes, m + 1, j) ELSE 0

\* crc.pushBytes, then crc.value()
CrcPush(c, bytes) == CrcRange(c, bytes, 1, Len(bytes))

CrcValue(bytes) == CrcPush(CrcInitial, bytes)

\* rtuPackager.Encode: adu[length-2] = byte(checksum), adu[length-1] =
\* byte(checksum >> 8): the low byte goes first.
CrcBytes(bytes) == << CrcValue(bytes) % 256, CrcValue(bytes) \div 256 >>

\* ------------------------------------------------------------ the RTU reader

rtuMinSize == 4
rtuMaxSize == 256
rtuExceptionSize == 5

stateSlaveID == 1
stateFunctionCode == 2
stateReadLength == 4
stateReadPayload == 8
stateCRC == 16

readCoilsFunctionCode == 1
readDiscreteInputsFunctionCode == 2
readHoldingRegisterFunctionCode == 3
readInputRegisterFunctionCode == 4
writeSingleCoilFunctionCode == 5
writeSingleRegisterFunctionCode == 6
writeMultipleRegisterFunctionCode == 16
writeMultipleCoilsFunctionCode == 15
maskWriteRegisterFunctionCode == 22
readWriteMultipleRegisterFunctionCode == 23
readFifoQueueFunctionCode == 24

\* client.ReadDeviceIdentification: function code 0x2B with MEI type 0x0E.
FuncCodeReadDeviceIdentification == 43
MEIType == 14

ErrInvalidLength == "InvalidLengthError"
ErrNotHandled == "functioncode not handled"
ErrRtuDeadline == "failed to read from serial port within deadline"
ErrOpen == "could not open"

\* Nothing is being read.
NoRtu == [slaveID |-> 0, functionCode |-> 0, delay |-> 0, state |-> 0,
          length |-> 0, toRead |-> 0, crcCount |-> 0, data |-> << >>,
          fed |-> << >>, err |-> NoErr, returned |-> FALSE]

\* readIncrementally(slaveID, functionCode, r, delay) before its loop.  fed
\* is not in the code: the bytes the reader has handed out so far.
RtuStart(slaveID, functionCode, delay) ==
    [NoRtu EXCEPT !.slaveID = slaveID, !.functionCode = functionCode,
                  !.delay = delay, !.state = stateSlaveID]

\* The function codes after which the reader expects a length byte.
RtuLengthPrefixed ==
    { readDiscreteInputsFunctionCode, readCoilsFunctionCode,
      readHoldingRegisterFunctionCode, readInputRegisterFunctionCode,
      readWriteMultipleRegisterFunctionCode, readFifoQueueFunctionCode }

\* The function codes after which it expects four bytes.
RtuFourBytes ==
    { writeSingleCoilFunctionCode, writeSingleRegisterFunctionCode,
      writeMultipleRegisterFunctionCode, writeMultipleCoilsFunctionCode }

\* readIncrementally, stateFunctionCode, the byte is the function code: the
\* inner switch.  The byte is stored by the caller of this.
RtuAfterFunctionCode(st) ==
    IF st.functionCode \in RtuLengthPrefixed
    THEN [st EXCEPT !.state = stateReadLength]
    ELSE IF st.functionCode \in RtuFourBytes
    THEN [st EXCEPT !.state = stateReadPayload, !.toRead = 4]
    ELSE IF st.functionCode = maskWriteRegisterFunctionCode
    THEN [st EXCEPT !.state = stateReadPayload, !.toRead = 6]
    ELSE [st EXCEPT !.err = ErrNotHandled, !.returned = TRUE]

\* A reader that lets one more byte through.
RtuLengthRejectedOffByOne(length) == length > rtuMaxSize - 4 \/ length = 0

\* readIncrementally, stateReadLength: length > rtuMaxSize-5 || length == 0
RtuLengthRejected(length) == length > rtuMaxSize - 5 \/ length = 0

\* One round of readIncrementally's loop on the byte b that ReadAtLeast put
\* in buf.  data[:n] is kept as the sequence data.
RtuStep(st, b) ==
    LET s == [st EXCEPT !.fed = Append(@, b)]
        store == [s EXCEPT !.data = Append(@, b)]
    IN  CASE st.state = stateSlaveID ->
                IF b = st.slaveID
                THEN [store EXCEPT !.state = stateFunctionCode]
                ELSE s
          [] st.state = stateFunctionCode ->
                IF b = st.functionCode
                THEN LET next == RtuAfterFunctionCode(s)
                     IN  IF next.returned THEN next
                         ELSE [next EXCEPT !.data = Append(@, b)]
                ELSE IF b = (st.functionCode + 128) % 256
                THEN [store EXCEPT !.state = stateReadPayload, !.toRead = 1]
                ELSE s
          [] st.state = stateReadLength ->
                IF RtuLengthRejected(b)
                THEN [s EXCEPT !.length = b, !.err = ErrInvalidLength,
                               !.returned = TRUE]
                ELSE [store EXCEPT !.length = b, !.toRead = b,
                                   !.state = stateReadPayload]
          [] st.state = stateReadPayload ->
                [store EXCEPT !.toRead = (st.toRead - 1) % 256,
                              !.state = IF (st.toRead - 1) % 256 = 0
                                        THEN stateCRC ELSE stateReadPayload]
          [] st.state = stateCRC ->
                [store EXCEPT !.crcCount = st.crcCount + 1,
                              !.returned = st.crcCount + 1 = 2]
          [] OTHER -> s

\* ------------------------------------------------------------ state

VARIABLES
    cfg,                          \* the handler's timeouts
    transactionID,                \* tcpPackager.transactionID
    mu,                           \* tcpTransporter.mu: its holder, or NoProc
    conn,                         \* tcpTransporter.conn: 0 is nil, n is the n-th dialled connection
    closeTimer,                   \* tcpTransporter.closeTimer
    lastActivity,                 \* tcpTransporter.lastActivity
    lastAttemptedTransactionID,
    lastSuccessfulTransactionID,
    ioDeadline,                   \* the deadline set on conn: {} is none
    pc,                           \* where each goroutine stands
    aduRequest,                   \* per caller: the encoded request
    recoveryDeadline,             \* per caller: Send's recoveryDeadline
    data,                         \* per caller: the header bytes read into data[:tcpHeaderSize]
    aduResponse,                  \* per caller: what Send returned
    err,                          \* per caller: Send's err
    wake,                         \* per caller: when time.Sleep returns
    inq,                          \* bytes the server sent that the client has not read
    srvPending,                   \* transaction ids the server has received and not answered
    srvClosed,                    \* the server closed its end of the connection
    calls,                        \* per caller: client operations started
    faults,                       \* environment faults so far
    dials,                        \* connections dialled so far
    stat,                         \* per caller: what its Send has done so far
    wire,                         \* the transaction ids of the last two frames written
    run,                          \* the unanswered requests on this connection
    rtu,                          \* readIncrementally: its arguments and local variables
    pack                          \* a packager at work: the PDU, its ADU, what Verify and Decode made of it

vars == << cfg, transactionID, mu, conn, closeTimer, lastActivity,
           lastAttemptedTransactionID, lastSuccessfulTransactionID, ioDeadline,
           pc, aduRequest, recoveryDeadline, data, aduResponse, err, wake,
           inq, srvPending, srvClosed, calls, faults, dials, stat, wire, run,
           rtu, pack >>

Configs ==
    [Timeout : Timeouts, IdleTimeout : IdleTimeouts,
     LinkRecoveryTimeout : LinkRecoveryTimeouts,
     ProtocolRecoveryTimeout : ProtocolRecoveryTimeouts]

\* The packager's counter when the behaviour starts: a new handler, and a
\* handler one call and two calls before the low 16 bits wrap.
StartCounters ==
    { [hi |-> 0, lo |-> 0],
      [hi |-> Pow16 - 1, lo |-> Pow16 - 2],
      [hi |-> Pow16 - 1, lo |-> Pow16 - 1] }

\* No packager at work.
NoPack == [step |-> "none"]

NoStat == [writes |-> 0, dials |-> 0, closes |-> 0, discards |-> 0, k |-> 0,
           outside |-> FALSE]

NoWire == [last |-> -1, prev |-> -1, first |-> FALSE]

NoRun == [timeouts |-> 0, dirty |-> FALSE]

\* What is the same in every initial state: nobody is inside a call.
InitIdle ==
    /\ cfg \in Configs
    /\ rtu = NoRtu
    /\ pack = NoPack
    /\ mu = NoProc
    /\ pc = [p \in Procs \cup {Timer} |-> "idle"]
    /\ recoveryDeadline = [p \in Procs |-> 0]
    /\ data = [p \in Procs |-> << >>]
    /\ aduResponse = [p \in Procs |-> << >>]
    /\ wake = [p \in Procs |-> 0]
    /\ inq = << >>
    /\ srvClosed = FALSE
    /\ calls = [p \in Procs |-> 0]
    /\ faults = 0

\* A handler that is not connected.  Its last Send, if it had one, succeeded:
\* both ids are its transaction id.
InitNew ==
    /\ InitIdle
    /\ transactionID \in StartCounters
    /\ lastAttemptedTransactionID = Low16(transactionID)
    /\ lastSuccessfulTransactionID = lastAttemptedTransactionID
    /\ conn = 0
    /\ closeTimer = [set |-> FALSE, armed |-> FALSE, at |-> 0]
    /\ lastActivity = 0
    /\ ioDeadline = {}
    /\ aduRequest = [p \in Procs |-> << >>]
    /\ err = [p \in Procs |-> NoErr]
    /\ srvPending = << >>
    /\ dials = 0
    /\ stat = [p \in Procs |-> NoStat]
    /\ wire = NoWire
    /\ run = NoRun

\* The same handler after one more Send, by the first caller: it dialled,
\* wrote its request, and its read of the header timed out, Timeout after
\* the write, with no answer from the server yet.  The Send before that one
\* succeeded, or (an id of 0) no Send ever did.
InitTimedOut ==
    /\ InitIdle
    /\ \E c \in StartCounters, a \in {0, 1} :
          /\ a = 0 => c.lo = Pow16 - 2
          /\ LET p == CHOOSE q \in Callers : TRUE
              adu == Encode(NextTransactionID(c), SlaveID,
                            FuncCodeReadInputRegisters, RequestData)
             IN  /\ transactionID = NextTransactionID(c)
                 /\ lastAttemptedTransactionID = Uint16(adu, 1)
                 /\ lastSuccessfulTransactionID = a * Low16(c)
                 /\ aduRequest = [q \in Procs |-> IF q = p THEN adu ELSE << >>]
                 /\ err = [q \in Procs |-> IF q = p THEN ErrTimeout ELSE NoErr]
                 /\ srvPending = << Uint16(adu, 1) >>
                 /\ stat = [q \in Procs |->
                        IF q = p THEN [NoStat EXCEPT !.writes = 1, !.dials = 1] ELSE NoStat]
                 /\ wire = [last |-> Uint16(adu, 1), prev |-> -1, first |-> TRUE]
    /\ conn = 1
    /\ dials = 1
    /\ closeTimer = startCloseTimer([set |-> FALSE, armed |-> FALSE, at |-> 0],
                                    now - Min(cfg.Timeout, cfg.IdleTimeout), cfg.IdleTimeout)
    /\ lastActivity = now - Min(cfg.Timeout, cfg.IdleTimeout)
    /\ ioDeadline = {now}
    /\ run = [timeouts |-> 1, dirty |-> FALSE]

Init == InitNew \/ InitTimedOut

\* ------------------------------------------------------------ helpers

\* The operations a goroutine may start: MaxCalls for the caller whose calls
\* the claims follow, a single one for the goroutine that gets in its way.
Quota(p) == IF p \in Callers THEN MaxCalls ELSE 1

\* A mutex that lets everybody in.
TryLockAlways(m) == TRUE

\* sync.Mutex: Lock returns when nobody holds the mutex.
TryLock(m) == m = NoProc

SendPcs == {"loop", "write", "readHeader", "readBody", "sleep"}

\* The labels at which a goroutine runs code under the mutex.
BodyPcs == SendPcs \cup {"connect", "close", "closeIdle"}

\* Send: timeout = lastActivity.Add(Timeout) when Timeout > 0, else the zero
\* time, which SetDeadline takes as no deadline.
IODeadline(activity, timeout) == IF timeout > 0 THEN {activity + timeout} ELSE {}

\* The deadline of the connection is over: a read or write fails, whether
\* it was blocked or is called now.
Expired(t, deadline) == \E d \in deadline : t >= d

\* A callback that takes every connection for idle.
IdleElapsedAlways(t, activity, idleTimeout) == TRUE

\* closeIdle: idle := time.Since(lastActivity); idle >= IdleTimeout
IdleElapsed(t, activity, idleTimeout) == t - activity >= idleTimeout

\* What the model notes down about a run, for the properties to read:
\*   stat[p]  writes, dials, closes: the frames the Send of p wrote, the
\*            connections it dialled and closed; discards: the replies it
\*            dropped as late; k: run.timeouts when it entered; outside: it
\*            read a reply with another transaction id at or after its
\*            recovery deadline, or with an id not between the two kept ids.
\*   wire     the transaction ids of the last frame written and of the one
\*            before (-1: none), and whether the last was the first frame of
\*            its Send.
\*   run      timeouts: the Sends in a row that wrote one request and timed
\*            out with nothing read; dirty: a Send ended otherwise and may
\*            have left replies unread.

\* g is strictly between a and b, going up from a modulo 2^16.
Between(g, a, b) ==
    /\ a # b
    /\ ((g - a) % Pow16) \in 1..(((b - a) % Pow16) - 1)

\* b is ahead of a by less than half the id space, modulo 2^16.
Ahead(b, a) == ((b - a) % Pow16) \in 1..(Pow16 \div 2 - 1)

FreshLink ==
    /\ inq' = << >>
    /\ srvPending' = << >>
    /\ srvClosed' = FALSE
    /\ run' = NoRun

\* ------------------------------------------------------------ client.send and tcpTransporter.Send

\* A Send that goes round its loop again where it should return.
Resume(p, e, rsp) ==
    /\ pc' = [pc EXCEPT ![p] = "loop"]
    /\ mu' = mu
    /\ err' = [err EXCEPT ![p] = e]
    /\ aduResponse' = [aduResponse EXCEPT ![p] = rsp]
    /\ UNCHANGED << recoveryDeadline, data, wake >>

\* A return that leaves the mutex locked.
ReturnHolding(p, e, rsp) ==
    /\ pc' = [pc EXCEPT ![p] = "idle"]
    /\ mu' = mu
    /\ err' = [err EXCEPT ![p] = e]
    /\ aduResponse' = [aduResponse EXCEPT ![p] = rsp]
    /\ recoveryDeadline' = [recoveryDeadline EXCEPT ![p] = 0]
    /\ data' = [data EXCEPT ![p] = << >>]
    /\ wake' = [wake EXCEPT ![p] = 0]

\* Send returns (aduResponse, err) to p; the deferred Unlock runs.
Return(p, e, rsp) ==
    /\ pc' = [pc EXCEPT ![p] = "idle"]
    /\ mu' = NoProc
    /\ err' = [err EXCEPT ![p] = e]
    /\ aduResponse' = [aduResponse EXCEPT ![p] = rsp]
    /\ recoveryDeadline' = [recoveryDeadline EXCEPT ![p] = 0]
    /\ data' = [data EXCEPT ![p] = << >>]
    /\ wake' = [wake EXCEPT ![p] = 0]

\* client.send: the packager encodes the request (ReadInputRegisters(0, 1)).
ClientEncode(p) ==
    /\ pc[p] = "idle"
    /\ calls[p] < Quota(p)
    /\ calls' = [calls EXCEPT ![p] = @ + 1]
    /\ transactionID' = NextTransactionID(transactionID)
    /\ aduRequest' = [aduRequest EXCEPT ![p] =
           Encode(transactionID', SlaveID, FuncCodeReadInputRegisters, RequestData)]
    /\ pc' = [pc EXCEPT ![p] = "encoded"]
    /\ err' = [err EXCEPT ![p] = NoErr]
    /\ aduResponse' = [aduResponse EXCEPT ![p] = << >>]
    /\ stat' = [stat EXCEPT ![p] = NoStat]
    /\ UNCHANGED << pack, rtu, cfg, mu, conn, closeTimer, lastActivity,
                    lastAttemptedTransactionID, lastSuccessfulTransactionID,
                    ioDeadline, recoveryDeadline, data, wake,
                    inq, srvPending, srvClosed, faults, dials, wire, run >>

\* Send: mb.mu.Lock(); recoveryDeadline := time.Now().Add(mb.IdleTimeout)
SendLock(p) ==
    /\ pc[p] = "encoded"
    /\ TryLock(mu)
    /\ mu' = p
    /\ recoveryDeadline' = [recoveryDeadline EXCEPT ![p] = now + cfg.IdleTimeout]
    /\ stat' = [stat EXCEPT ![p].k = IF run.dirty THEN 0 ELSE run.timeouts]
    /\ pc' = [pc EXCEPT ![p] = "loop"]
    /\ UNCHANGED << pack, rtu, cfg, transactionID, conn, closeTimer, lastActivity,
                    lastAttemptedTransactionID, lastSuccessfulTransactionID,
                    ioDeadline, aduRequest, data, aduResponse, err, wake,
                    inq, srvPending, srvClosed, calls, faults, dials, wire, run >>

\* Send, the head of the loop: connect(), lastActivity, startCloseTimer,
\* SetDeadline.
SendLoop(p) ==
    /\ pc[p] = "loop"
    /\ \/ \* the dial fails: Send returns its error
          /\ conn = 0
          /\ faults < MaxFaults
          /\ faults' = faults + 1
          /\ Return(p, ErrDial, << >>)
          /\ UNCHANGED << conn, closeTimer, lastActivity, ioDeadline,
                          inq, srvPending, srvClosed, dials, stat, run >>
       \/ /\ \/ /\ conn = 0
                /\ conn' = dials + 1
                /\ dials' = dials + 1
                /\ stat' = [stat EXCEPT ![p].dials = @ + 1]
                /\ FreshLink
             \/ /\ conn # 0
                /\ UNCHANGED << conn, dials, stat, inq, srvPending, srvClosed, run >>
          /\ lastActivity' = now
          /\ closeTimer' = startCloseTimer(closeTimer, now, cfg.IdleTimeout)
          /\ ioDeadline' = IODeadline(now, cfg.Timeout)
          /\ err' = [err EXCEPT ![p] = NoErr]
          /\ pc' = [pc EXCEPT ![p] = "write"]
          /\ UNCHANGED << mu, aduResponse, recoveryDeadline, data, wake, faults >>
    /\ UNCHANGED << pack, rtu, cfg, transactionID, lastAttemptedTransactionID,
                    lastSuccessfulTransactionID, aduRequest, calls, wire >>

\* Send: mb.conn.Write(aduRequest), then lastAttemptedTransactionID.
SendWrite(p) ==
    /\ pc[p] = "write"
    /\ stat[p].writes < MaxWrites
    /\ \/ \* the write fails: the deadline is over, or the link is broken
          /\ \/ Expired(later, ioDeadline) /\ UNCHANGED faults
             \/ ~Expired(later, ioDeadline) /\ faults < MaxFaults /\ faults' = faults + 1
          /\ Return(p, ErrWrite, << >>)
          /\ run' = [timeouts |-> 0, dirty |-> TRUE]
          /\ UNCHANGED << lastAttemptedTransactionID, srvPending, stat, wire >>
       \/ /\ ~Expired(later, ioDeadline)
          /\ lastAttemptedTransactionID' = Uint16(aduRequest[p], 1)
          /\ srvPending' = IF srvClosed THEN srvPending
                           ELSE Append(srvPending, Uint16(aduRequest[p], 1))
          /\ wire' = [last |-> Uint16(aduRequest[p], 1), prev |-> wire.last,
                      first |-> stat[p].writes = 0]
          /\ stat' = [stat EXCEPT ![p].writes = @ + 1]
          /\ pc' = [pc EXCEPT ![p] = "readHeader"]
          /\ UNCHANGED << mu, aduResponse, err, recoveryDeadline, data, wake,
                          faults, run >>
    /\ UNCHANGED << pack, rtu, cfg, transactionID, conn, closeTimer, lastActivity,
                    lastSuccessfulTransactionID, ioDeadline, aduRequest,
                    inq, srvClosed, calls, dials >>

\* A close that keeps the handle.
closeKeeps(c) == c

\* close: the connection, if any, is closed and the handle set to nil.
close(c) == 0

\* A Send that records the id of every frame it returns with.
SuccessfulIDOfAny(res, e, rsp, last) ==
    IF res = readResultDone /\ rsp # << >> THEN Uint16(rsp, 1) ELSE last

\* Send: case readResultDone: if err == nil, lastSuccessfulTransactionID is
\* the id of aduResponse.
SuccessfulID(res, e, rsp, last) ==
    IF res = readResultDone /\ e = NoErr THEN Uint16(rsp, 1) ELSE last

\* Send, after readResponse returned res and e on a frame rsp, with rest the
\* unread bytes: the switch on res, the close and the sleep.
After(p, res, e, rsp, rest) ==
    /\ lastSuccessfulTransactionID' =
           SuccessfulID(res, e, rsp, lastSuccessfulTransactionID)
    /\ stat' = [stat EXCEPT
           ![p].discards = IF res = readAgain THEN @ + 1 ELSE @,
           ![p].closes = IF res = readResultCloseRetry THEN @ + 1 ELSE @,
           ![p].outside = @ \/ (/\ e = errTransactionIDMismatch
                                 /\ \/ later >= recoveryDeadline[p]
                                    \/ ~Between(Uint16(rsp, 1), lastSuccessfulTransactionID,
                                                lastAttemptedTransactionID))]
    /\ IF res = readResultCloseRetry
       THEN /\ conn' = close(conn)
            /\ FreshLink
       ELSE /\ inq' = rest
            /\ run' = IF res # readResultDone THEN run
                      ELSE IF e = NoErr
                           THEN [timeouts |-> 0, dirty |-> stat[p].writes > 1]
                      ELSE IF /\ e = ErrTimeout
                              /\ pc[p] = "readHeader"
                              /\ stat[p].writes = 1
                              /\ stat[p].discards = 0
                           THEN [run EXCEPT !.timeouts = @ + 1]
                           ELSE [timeouts |-> 0, dirty |-> TRUE]
            /\ UNCHANGED << conn, srvPending, srvClosed >>
    /\ IF res = readResultDone
       THEN Return(p, e, rsp)
       ELSE /\ pc' = [pc EXCEPT ![p] =
                   CASE res = readResultRetry -> "loop"
                     [] res = readResultCloseRetry -> "sleep"
                     [] OTHER -> "readHeader"]
            /\ err' = [err EXCEPT ![p] = e]
            /\ aduResponse' = [aduResponse EXCEPT ![p] = rsp]
            /\ data' = [data EXCEPT ![p] = << >>]
            /\ wake' = [wake EXCEPT ![p] =
                   IF res = readResultCloseRetry THEN now + cfg.LinkRecoveryTimeout ELSE @]
            /\ UNCHANGED << mu, recoveryDeadline >>

\* flush: SetReadDeadline(time.Now()) and one Read into the 260-byte buffer,
\* which takes nothing when the deadline cuts it short, else what is pending.
FlushCounts(pending) == {0, Min(Len(pending), tcpMaxLength)}

\* readResponse: io.ReadFull of the header, then processResponse's length
\* checks (with flush) or, for an accepted length, on to the body read.
SendReadHeader(p) ==
    /\ pc[p] = "readHeader"
    /\ \/ \* 7 bytes are read
          /\ Len(inq) >= tcpHeaderSize
          /\ ~Expired(later, ioDeadline)
          /\ LET header == Take(inq, tcpHeaderSize)
                 rest == Drop(inq, tcpHeaderSize)
                 length == Uint16(header, 5)
             IN  IF HeaderLengthRejected(length)
                 THEN \E n \in FlushCounts(rest) :
                        /\ ioDeadline' = {now}
                        /\ After(p, FrameErrorResult(ErrTCPHeaderLength, Uint16(header, 1),
                                        later, recoveryDeadline[p],
                                        lastSuccessfulTransactionID,
                                        lastAttemptedTransactionID,
                                        cfg.LinkRecoveryTimeout,
                                        cfg.ProtocolRecoveryTimeout),
                                 ErrTCPHeaderLength, << >>, Drop(rest, n))
                 ELSE /\ data' = [data EXCEPT ![p] = header]
                      /\ inq' = rest
                      /\ pc' = [pc EXCEPT ![p] = "readBody"]
                      /\ UNCHANGED << mu, conn, ioDeadline, aduResponse, err,
                                      recoveryDeadline, wake, srvPending, srvClosed,
                                      lastSuccessfulTransactionID, stat, run >>
       \/ \* the read times out; ReadFull has taken the bytes it got
          /\ Expired(later, ioDeadline)
          /\ After(p, HeaderErrorResult(ErrTimeout, later, recoveryDeadline[p],
                                        cfg.LinkRecoveryTimeout),
                   ErrTimeout, << >>,
                   IF Len(inq) < tcpHeaderSize THEN << >> ELSE inq)
          /\ UNCHANGED ioDeadline
       \/ \* the server closed the connection: EOF, or ErrUnexpectedEOF after
          \* a part of the header
          /\ srvClosed
          /\ Len(inq) < tcpHeaderSize
          /\ ~Expired(later, ioDeadline)
          /\ LET e == IF Len(inq) = 0 THEN ErrEOF ELSE ErrUnexpectedEOF
                 res == HeaderErrorResult(e, later, recoveryDeadline[p],
                                          cfg.LinkRecoveryTimeout)
             IN  /\ After(p, res, e, << >>, << >>)
                 /\ ioDeadline' = IF res = readResultCloseRetry THEN {} ELSE ioDeadline
    /\ UNCHANGED << pack, rtu, cfg, transactionID, closeTimer, lastActivity,
                    lastAttemptedTransactionID, aduRequest,
                    calls, faults, dials, wire >>

\* processResponse: io.ReadFull of data[tcpHeaderSize:length]; then verify and
\* readResponse's handling of what they return.
SendReadBody(p) ==
    /\ pc[p] = "readBody"
    /\ LET n == BodyLength(Uint16(data[p], 5))
           FrameError(e, got) ==
               FrameErrorResult(e, got, later, recoveryDeadline[p],
                                lastSuccessfulTransactionID,
                                lastAttemptedTransactionID,
                                cfg.LinkRecoveryTimeout, cfg.ProtocolRecoveryTimeout)
       IN  \/ \* the body is read: exactly n bytes
              /\ n = 0 \/ (Len(inq) >= n /\ ~Expired(later, ioDeadline))
              /\ LET rsp == data[p] \o Take(inq, n)
                     e == verify(aduRequest[p], rsp)
                 IN  After(p, IF e = NoErr THEN readResultDone
                              ELSE FrameError(e, Uint16(rsp, 1)),
                           e, rsp, Drop(inq, n))
           \/ \* the read times out
              /\ n > 0
              /\ Expired(later, ioDeadline)
              /\ After(p, FrameError(ErrTimeout, 0), ErrTimeout, << >>,
                       IF Len(inq) < n THEN << >> ELSE inq)
           \/ \* the server closed the connection before the body was complete
              /\ n > 0
              /\ srvClosed
              /\ Len(inq) < n
              /\ ~Expired(later, ioDeadline)
              /\ LET e == IF Len(inq) = 0 THEN ErrEOF ELSE ErrUnexpectedEOF
                 IN  After(p, FrameError(e, 0), e, << >>, << >>)
    /\ UNCHANGED << pack, rtu, cfg, transactionID, closeTimer, lastActivity,
                    lastAttemptedTransactionID, ioDeadline, aduRequest,
                    calls, faults, dials, wire >>

\* Send: time.Sleep(mb.LinkRecoveryTimeout) returns; the loop starts over.
SendWake(p) ==
    /\ pc[p] = "sleep"
    /\ later >= wake[p]
    /\ pc' = [pc EXCEPT ![p] = "loop"]
    /\ UNCHANGED << pack, rtu, cfg, transactionID, mu, conn, closeTimer, lastActivity,
                    lastAttemptedTransactionID, lastSuccessfulTransactionID,
                    ioDeadline, aduRequest, recoveryDeadline, data, aduResponse,
                    err, wake, inq, srvPending, srvClosed, calls, faults, dials,
                    stat, wire, run >>

\* ------------------------------------------------------------ Connect, Close, the idle timer

\* Connect: mb.mu.Lock()
ConnectLock(p) ==
    /\ pc[p] = "idle"
    /\ calls[p] < Quota(p)
    /\ TryLock(mu)
    /\ calls' = [calls EXCEPT ![p] = @ + 1]
    /\ mu' = p
    /\ pc' = [pc EXCEPT ![p] = "connect"]
    /\ UNCHANGED << pack, rtu, cfg, transactionID, conn, closeTimer, lastActivity,
                    lastAttemptedTransactionID, lastSuccessfulTransactionID,
                    ioDeadline, aduRequest, recoveryDeadline, data, aduResponse,
                    err, wake, inq, srvPending, srvClosed, faults, dials,
                    stat, wire, run >>

\* Connect: return mb.connect()
ConnectBody(p) ==
    /\ pc[p] = "connect"
    /\ \/ /\ conn = 0
          /\ faults < MaxFaults
          /\ faults' = faults + 1
          /\ Return(p, ErrDial, << >>)
          /\ UNCHANGED << conn, dials, inq, srvPending, srvClosed, run >>
       \/ /\ conn = 0
          /\ conn' = dials + 1
          /\ dials' = dials + 1
          /\ FreshLink
          /\ Return(p, NoErr, << >>)
          /\ UNCHANGED faults
       \/ /\ conn # 0
          /\ Return(p, NoErr, << >>)
          /\ UNCHANGED << conn, dials, inq, srvPending, srvClosed, run, faults >>
    /\ UNCHANGED << pack, rtu, cfg, transactionID, closeTimer, lastActivity,
                    lastAttemptedTransactionID, lastSuccessfulTransactionID,
                    ioDeadline, aduRequest, calls, stat, wire >>

\* Close: mb.mu.Lock()
CloseLock(p) ==
    /\ pc[p] = "idle"
    /\ calls[p] < Quota(p)
    /\ TryLock(mu)
    /\ calls' = [calls EXCEPT ![p] = @ + 1]
    /\ mu' = p
    /\ pc' = [pc EXCEPT ![p] = "close"]
    /\ UNCHANGED << pack, rtu, cfg, transactionID, conn, closeTimer, lastActivity,
                    lastAttemptedTransactionID, lastSuccessfulTransactionID,
                    ioDeadline, aduRequest, recoveryDeadline, data, aduResponse,
                    err, wake, inq, srvPending, srvClosed, faults, dials,
                    stat, wire, run >>

\* Close: return mb.close()
CloseBody(p) ==
    /\ pc[p] = "close"
    /\ \/ /\ conn = 0
          /\ Return(p, NoErr, << >>)
          /\ UNCHANGED << conn, ioDeadline, inq, srvPending, srvClosed, run, faults >>
       \/ /\ conn # 0
          /\ conn' = close(conn)
          /\ ioDeadline' = {}
          /\ FreshLink
          /\ \/ Return(p, NoErr, << >>) /\ UNCHANGED faults
             \/ /\ faults < MaxFaults
                /\ faults' = faults + 1
                /\ Return(p, ErrClose, << >>)
    /\ UNCHANGED << pack, rtu, cfg, transactionID, closeTimer, lastActivity,
                    lastAttemptedTransactionID, lastSuccessfulTransactionID,
                    aduRequest, calls, dials, stat, wire >>

\* The timer set by startCloseTimer expires: closeIdle starts in a goroutine
\* of its own.
TimerFire ==
    /\ closeTimer.armed
    /\ later >= closeTimer.at
    /\ pc[Timer] = "idle"
    /\ closeTimer' = [closeTimer EXCEPT !.armed = FALSE, !.at = now]
    /\ pc' = [pc EXCEPT ![Timer] = "fired"]
    /\ UNCHANGED << pack, rtu, cfg, transactionID, mu, conn, lastActivity,
                    lastAttemptedTransactionID, lastSuccessfulTransactionID,
                    ioDeadline, aduRequest, recoveryDeadline, data, aduResponse,
                    err, wake, inq, srvPending, srvClosed, calls, faults, dials,
                    stat, wire, run >>

\* closeIdle: mb.mu.Lock()
CloseIdleLock ==
    /\ pc[Timer] = "fired"
    /\ TryLock(mu)
    /\ mu' = Timer
    /\ pc' = [pc EXCEPT ![Timer] = "closeIdle"]
    /\ UNCHANGED << pack, rtu, cfg, transactionID, conn, closeTimer, lastActivity,
                    lastAttemptedTransactionID, lastSuccessfulTransactionID,
                    ioDeadline, aduRequest, recoveryDeadline, data, aduResponse,
                    err, wake, inq, srvPending, srvClosed, calls, faults, dials,
                    stat, wire, run >>

\* closeIdle: the two checks, mb.close(), the deferred Unlock.
CloseIdleBody ==
    /\ pc[Timer] = "closeIdle"
    /\ IF cfg.IdleTimeout > 0 /\ IdleElapsed(later, lastActivity, cfg.IdleTimeout) /\ conn # 0
       THEN /\ conn' = close(conn)
            /\ ioDeadline' = {}
            /\ FreshLink
       ELSE UNCHANGED << conn, ioDeadline, inq, srvPending, srvClosed, run >>
    /\ mu' = NoProc
    /\ pc' = [pc EXCEPT ![Timer] = "idle"]
    /\ UNCHANGED << pack, rtu, cfg, transactionID, closeTimer, lastActivity,
                    lastAttemptedTransactionID, lastSuccessfulTransactionID,
                    aduRequest, recoveryDeadline, data, aduResponse,
                    err, wake, calls, faults, dials, stat, wire >>

\* ------------------------------------------------------------ the server, the network, the clock

\* An MBAP frame as it travels: the 7-byte header, then the body.
Frame(tid, pid, length, uid, body) ==
    PutUint16(tid) \o PutUint16(pid) \o PutUint16(length) \o << uid >> \o body

\* The PDU of the answer to ReadInputRegisters(0, 1): function code, byte
\* count, one register.
ResponsePDU == << FuncCodeReadInputRegisters, 2, 0, 0 >>

\* Transaction ids a faulty server answers with instead of the request's.
StrayIDs == {3}

\* Length fields that processResponse rejects.
BadLengths == {0, tcpMaxLength - tcpHeaderSize + 2}

\* What a faulty server may send in answer to the request tid.
FaultFrames(tid) ==
    { Frame(g, tcpProtocolIdentifier, 1 + Len(ResponsePDU), SlaveID, ResponsePDU) :
          g \in StrayIDs \ {tid} }
    \cup { Frame(tid, tcpProtocolIdentifier + 1, 1 + Len(ResponsePDU), SlaveID, ResponsePDU),
           Frame(tid, tcpProtocolIdentifier, 1 + Len(ResponsePDU), SlaveID + 1, ResponsePDU) }
    \cup { Frame(tid, tcpProtocolIdentifier, l, SlaveID, << >>) : l \in BadLengths }
    \cup { \* the shortest and the longest frame that pass the length checks
           Frame(tid, tcpProtocolIdentifier, 1, SlaveID, << >>),
           Frame(tid, tcpProtocolIdentifier, tcpMaxLength - tcpHeaderSize + 1, SlaveID,
                 Fill(tcpMaxLength - tcpHeaderSize, 0)),
           \* a frame that stops after two bytes of its body
           Frame(tid, tcpProtocolIdentifier, 1 + Len(ResponsePDU), SlaveID,
                 Take(ResponsePDU, 2)) }

\* The server answers the oldest request it holds.
SrvReply ==
    /\ conn # 0
    /\ ~srvClosed
    /\ srvPending # << >>
    /\ inq' = inq \o Frame(Head(srvPending), tcpProtocolIdentifier,
                           1 + Len(ResponsePDU), SlaveID, ResponsePDU)
    /\ srvPending' = Tail(srvPending)
    /\ UNCHANGED << pack, rtu, cfg, transactionID, mu, conn, closeTimer, lastActivity,
                    lastAttemptedTransactionID, lastSuccessfulTransactionID,
                    ioDeadline, pc, aduRequest, recoveryDeadline, data, aduResponse,
                    err, wake, srvClosed, calls, faults, dials, stat, wire, run >>

\* The server answers the oldest request it holds with a frame that is not
\* the answer.
SrvFault ==
    /\ conn # 0
    /\ ~srvClosed
    /\ srvPending # << >>
    /\ faults < MaxFaults
    /\ faults' = faults + 1
    /\ \E f \in FaultFrames(Head(srvPending)) : inq' = inq \o f
    /\ srvPending' = Tail(srvPending)
    /\ UNCHANGED << pack, rtu, cfg, transactionID, mu, conn, closeTimer, lastActivity,
                    lastAttemptedTransactionID, lastSuccessfulTransactionID,
                    ioDeadline, pc, aduRequest, recoveryDeadline, data, aduResponse,
                    err, wake, srvClosed, calls, dials, stat, wire, run >>

\* The server closes the connection; requests it holds stay unanswered.
SrvClose ==
    /\ conn # 0
    /\ ~srvClosed
    /\ faults < MaxFaults
    /\ faults' = faults + 1
    /\ srvClosed' = TRUE
    /\ srvPending' = << >>
    /\ UNCHANGED << pack, rtu, cfg, transactionID, mu, conn, closeTimer, lastActivity,
                    lastAttemptedTransactionID, lastSuccessfulTransactionID,
                    ioDeadline, pc, aduRequest, recoveryDeadline, data, aduResponse,
                    err, wake, inq, calls, dials, stat, wire, run >>

\* Caller p waits: for its caller, for the mutex, for the dial, for the write
\* to go out, for bytes that have not come, or in time.Sleep.
Waiting(p) ==
    \/ pc[p] = "idle"
    \/ pc[p] = "encoded" /\ ~TryLock(mu)
    \/ pc[p] \in {"loop", "connect"} /\ conn = 0
    \/ pc[p] = "write" /\ ~Expired(later, ioDeadline)
    \/ /\ pc[p] = "readHeader"
       /\ Len(inq) < tcpHeaderSize /\ ~srvClosed /\ ~Expired(later, ioDeadline)
    \/ /\ pc[p] = "readBody"
       /\ Len(inq) < BodyLength(Uint16(data[p], 5)) /\ ~srvClosed
       /\ ~Expired(later, ioDeadline)
    \/ pc[p] = "sleep" /\ later < wake[p]

\* The timer waits to expire, or closeIdle waits for the mutex.
TimerWaiting ==
    \/ pc[Timer] = "idle" /\ ~(closeTimer.armed /\ later >= closeTimer.at)
    \/ pc[Timer] = "fired" /\ ~TryLock(mu)

\* One clock tick, while every goroutine waits; the statements in between
\* take no time.  Every kept instant moves one tick into the past; a
\* deadline in the past compares like one that is due now, and lastActivity
\* is only compared with IdleTimeout.
Tick ==
    /\ TimerWaiting
    /\ \A p \in Procs : Waiting(p)
    /\ lastActivity' = Max(lastActivity - 2, now - cfg.IdleTimeout)
    /\ ioDeadline' = { Max(d - 2, now) : d \in ioDeadline }
    /\ closeTimer' = [closeTimer EXCEPT !.at = Max(@ - 2, now)]
    /\ recoveryDeadline' = [p \in Procs |->
           IF pc[p] \in SendPcs THEN Max(recoveryDeadline[p] - 2, now)
           ELSE recoveryDeadline[p]]
    /\ wake' = [p \in Procs |-> Max(wake[p] - 2, now)]
    /\ UNCHANGED << pack, rtu, cfg, transactionID, mu, conn,
                    lastAttemptedTransactionID, lastSuccessfulTransactionID,
                    pc, aduRequest, data, aduResponse, err,
                    inq, srvPending, srvClosed, calls, faults, dials,
                    stat, wire, run >>

\* ------------------------------------------------------------ specifications

\* One caller: its calls come one after another.
Next ==
    \/ \E p \in Callers :
          \/ ClientEncode(p)
          \/ SendLock(p)
          \/ SendLoop(p)
          \/ SendWrite(p)
          \/ SendReadHeader(p)
          \/ SendReadBody(p)
          \/ SendWake(p)
    \/ TimerFire
    \/ CloseIdleLock
    \/ CloseIdleBody
    \/ SrvReply
    \/ SrvFault
    \/ SrvClose
    \/ Tick

Spec == Init /\ [][Next]_vars

\* Two callers share a new handler: they call Send, Connect and Close in any
\* interleaving, with every recovery path switched on.  The server answers
\* well or closes the connection.
InitShared ==
    /\ InitNew
    /\ cfg.IdleTimeout > 0
    /\ cfg.LinkRecoveryTimeout > 0
    /\ cfg.ProtocolRecoveryTimeout > 0

NextShared ==
    \/ \E p \in Procs :
          \/ ClientEncode(p)
          \/ SendLock(p)
          \/ SendLoop(p)
          \/ SendWrite(p)
          \/ SendReadHeader(p)
          \/ SendReadBody(p)
          \/ SendWake(p)
          \/ ConnectLock(p)
          \/ ConnectBody(p)
          \/ CloseLock(p)
          \/ CloseBody(p)
    \/ TimerFire
    \/ CloseIdleLock
    \/ CloseIdleBody
    \/ SrvReply
    \/ SrvClose
    \/ Tick

SpecShared == InitShared /\ [][NextShared]_vars

\* The scheduler lets every goroutine that can take a step take it, timers
\* expire and the clock goes on: a dial, a write and a read each return, with
\* data or with an error.
Fairness ==
    /\ WF_vars(Tick)
    /\ WF_vars(TimerFire)
    /\ WF_vars(CloseIdleLock)
    /\ WF_vars(CloseIdleBody)
    /\ \A p \in Callers :
          /\ WF_vars(SendLock(p))
          /\ WF_vars(SendLoop(p))
          /\ WF_vars(SendWrite(p))
          /\ WF_vars(SendReadHeader(p))
          /\ WF_vars(SendReadBody(p))
          /\ WF_vars(SendWake(p))

\* Whether a Send returns does not hang on where the transaction counter
\* stands: the counter starts at zero, or one Send has timed out before.
InitLive ==
    /\ Init
    /\ transactionID.hi = 0
    /\ transactionID.lo = IF conn = 0 THEN 0 ELSE 1

SpecLive == InitLive /\ [][Next]_vars /\ Fairness

\* ------------------------------------------------------------ what the properties speak of

\* The transaction id of a frame.
Tid(adu) == Uint16(adu, 1)

\* The length of the body that follows the header p has read.
BodyOf(p) == BodyLength(Uint16(data[p], 5))

\* The frame p has once its body is read.
FrameOf(p) == data[p] \o Take(inq, BodyOf(p))

\* This step, p reads the 7 bytes of a header.
HeaderRead(p) ==
    /\ pc[p] = "readHeader"
    /\ Len(inq) >= tcpHeaderSize
    /\ Len(inq') < Len(inq)

\* This step, p reads the body of the frame whose header it has: the frame is
\* fully read.
BodyRead(p) ==
    /\ pc[p] = "readBody"
    /\ pc'[p] # "readBody"
    /\ Len(inq) >= BodyOf(p)
    /\ inq' = Drop(inq, BodyOf(p))

\* This step, the Send of p returns e and lets go of the mutex.
Returned(p, e) ==
    /\ pc'[p] = "idle"
    /\ err'[p] = e
    /\ mu' = NoProc

\* This step, the Send of p goes back to the head of its loop to write the
\* request again on the connection it has, which it has not closed.
Resent(p) ==
    /\ pc'[p] = "loop"
    /\ conn # 0
    /\ conn' = conn
    /\ stat'[p].closes = stat[p].closes
    /\ mu' = p

\* This step, the Send of p drops a frame and goes on to read the next one
\* from the same connection: it has not written, closed or dialled.
Discarded(p) ==
    /\ pc'[p] = "readHeader"
    /\ conn # 0
    /\ conn' = conn
    /\ stat'[p].discards = stat[p].discards + 1
    /\ stat'[p].writes = stat[p].writes
    /\ stat'[p].closes = stat[p].closes
    /\ stat'[p].dials = stat[p].dials
    /\ wire' = wire
    /\ mu' = p

\* From the head of the loop, with a connection, Send goes on to the write on
\* that connection.
LoopWrites(p) ==
    (pc[p] = "loop" /\ conn # 0 /\ pc'[p] # "loop")
        => (pc'[p] = "write" /\ conn' = conn)

\* The recovery deadline of the Send of p is still ahead.
InTime(p) == later < recoveryDeadline[p]

\* ------------------------------------------------------------ properties

\* C1: a fully read response whose transaction id g differs from the
\* request's is dropped as a late reply, and the next frame is read from the
\* same connection with no write and no close in between, when g lies in the
\* window (A < B and A < g < B, or B < A and (g > A or g < B)) and the
\* recovery deadline is still ahead.  Otherwise the request is sent again when
\* protocol_recovery_timeout > 0 and the recovery deadline is still ahead, and
\* else the mismatch error is returned: so it is for every g once the
\* deadline is reached.
C1_LateReplyWindow ==
    [][\A p \in Callers :
         (BodyRead(p) /\ Tid(FrameOf(p)) # Tid(aduRequest[p])) =>
            LET g == Tid(FrameOf(p))
                A == lastSuccessfulTransactionID
                B == lastAttemptedTransactionID
                window == \/ (A < B /\ A < g /\ g < B)
                          \/ (B < A /\ (g > A \/ g < B))
            IN  IF InTime(p) /\ window THEN Discarded(p)
                ELSE IF InTime(p) /\ cfg.ProtocolRecoveryTimeout > 0 THEN Resent(p)
                ELSE Returned(p, errTransactionIDMismatch)]_vars

\* C1 as the spec has it: a g in the window is dropped as a late reply
\* whatever the time.
C1_LateReplyWindowAnyTime ==
    [][\A p \in Callers :
         (BodyRead(p) /\ Tid(FrameOf(p)) # Tid(aduRequest[p])) =>
            LET g == Tid(FrameOf(p))
                A == lastSuccessfulTransactionID
                B == lastAttemptedTransactionID
                window == \/ (A < B /\ A < g /\ g < B)
                          \/ (B < A /\ (g > A \/ g < B))
            IN  IF window THEN Discarded(p)
                ELSE IF InTime(p) /\ cfg.ProtocolRecoveryTimeout > 0 THEN Resent(p)
                ELSE Returned(p, errTransactionIDMismatch)]_vars

\* A Send has returned the mismatch error for a reply whose id is in the
\* window, past the wrap-around.
C1_Witness ==
    \E p \in Callers :
        /\ pc[p] = "idle"
        /\ err[p] = errTransactionIDMismatch
        /\ lastAttemptedTransactionID = Tid(aduRequest[p])
        /\ lastAttemptedTransactionID < lastSuccessfulTransactionID
        /\ Tid(aduResponse[p]) > lastSuccessfulTransactionID

\* What C2 starts from: the Send of p has returned; when it entered, k >= 1
\* Sends in a row had timed out unanswered on the connection; the server and
\* the link have done nothing wrong; the Send did not itself time out or fail
\* to write.
C2_Case(p) ==
    /\ pc[p] = "idle"
    /\ stat[p].k >= 1
    /\ faults = 0
    /\ err[p] \notin {ErrTimeout, ErrWrite}

\* What C2 ends in: one write, k replies dropped, the own reply returned.
C2_Clean(p) ==
    /\ err[p] = NoErr
    /\ stat[p].writes = 1
    /\ stat[p].discards = stat[p].k
    /\ Tid(aduResponse[p]) = Tid(aduRequest[p])

\* C2: after k >= 1 Sends in a row that timed out on one connection, with the
\* server then answering every request in order, the next Send writes its
\* request once, drops the k stale replies without sending again and returns
\* the reply with its own transaction id, provided it reads every stale reply
\* before its recovery deadline and with an id between last_successful and
\* last_attempted; if not, it returns the mismatch error or sends again.
C2_StaleRepliesDropped ==
    \A p \in Callers :
        C2_Case(p) =>
            IF ~stat[p].outside THEN C2_Clean(p)
            ELSE err[p] = errTransactionIDMismatch \/ stat[p].writes > 1

\* C2 as the spec has it: the stale replies are dropped whenever they are read.
C2_StaleRepliesDroppedAlways ==
    \A p \in Callers : C2_Case(p) => C2_Clean(p)

\* A Send has dropped the stale replies and returned its own.
C2_Witness ==
    \E p \in Callers : C2_Case(p) /\ ~stat[p].outside /\ C2_Clean(p)

\* A goroutine runs code that the mutex guards.
InBody(g) == pc[g] \in BodyPcs

\* C3: the bodies of Send, Connect, Close and closeIdle exclude each other,
\* whoever is in one holds the mutex, and the connection handle and
\* lastActivity are changed only by the goroutine that holds the mutex.
C3_MutualExclusion ==
    /\ [](\A g, h \in Procs \cup {Timer} :
            /\ (InBody(g) /\ InBody(h)) => g = h
            /\ InBody(g) => mu = g)
    /\ [][(conn' # conn \/ lastActivity' > lastActivity)
            => (mu # NoProc /\ InBody(mu) /\ pc'[mu] # pc[mu])]_vars

\* One caller is inside Send while the other waits for the mutex and
\* closeIdle waits for it too.
C3_Witness ==
    \E p, q \in Procs :
        /\ p # q
        /\ pc[p] \in SendPcs
        /\ pc[q] = "encoded"
        /\ pc[Timer] = "fired"

\* C4: when the calls come one after another, the first frame of a Send
\* carries a transaction id strictly ahead, modulo 2^16, of the frame written
\* before it, and every frame the retry loop writes after that carries the
\* same id as the frame before it.
C4_FrameIds ==
    wire.prev # -1 =>
        IF wire.first THEN Ahead(wire.last, wire.prev)
        ELSE wire.last = wire.prev

\* C4 as the spec has it: every frame is strictly ahead of the one before.
C4_FrameIdsStrict ==
    wire.prev # -1 => Ahead(wire.last, wire.prev)

\* The retry loop has written the request a second time.
C4_Witness ==
    /\ wire.prev # -1
    /\ ~wire.first
    /\ \E p \in Callers : stat[p].writes = 2

\* C5: every Encode takes the transaction id that follows the id of the
\* Encode before it, plus 1 modulo 2^16, from a counter that the call has
\* moved on; from a counter of zero the id is 1; and the id differs from the
\* id of every request another caller holds at the time.
C5_EncodeIds ==
    [][\A p \in Procs :
         (pc[p] = "idle" /\ pc'[p] = "encoded") =>
            /\ Tid(aduRequest'[p]) = (transactionID.lo + 1) % Pow16
            /\ transactionID'.lo = Tid(aduRequest'[p])
            /\ transactionID' # transactionID
            /\ (transactionID.hi = 0 /\ transactionID.lo = 0) => Tid(aduRequest'[p]) = 1
            /\ \A q \in Procs \ {p} :
                  (pc[q] # "idle" /\ aduRequest[q] # << >>)
                      => Tid(aduRequest[q]) # Tid(aduRequest'[p])]_vars

\* Two callers hold requests at once, with ids on either side of the wrap.
C5_Witness ==
    \E p, q \in Procs :
        /\ pc[p] = "encoded"
        /\ pc[q] \in SendPcs
        /\ Tid(aduRequest[q]) = Pow16 - 1
        /\ Tid(aduRequest[p]) = 0

\* C6: a response whose MBAP length field is 0 or greater than 254 is
\* rejected with the header-length error and Send does not go on to read a
\* body for it; for every length in 1..254 Send reads exactly length - 1
\* further bytes, and the frame it has then is 6 + length bytes long.
C6_HeaderLength ==
    [][\A p \in Callers :
         /\ HeaderRead(p) =>
               LET length == Uint16(inq, 5)
               IN  IF length = 0 \/ length > 254
                   THEN /\ err'[p] = ErrTCPHeaderLength
                        /\ pc'[p] # "readBody"
                   ELSE /\ pc'[p] = "readBody"
                        /\ inq' = Drop(inq, tcpHeaderSize)
         /\ BodyRead(p) =>
               LET length == Uint16(data[p], 5)
               IN  /\ length \in 1..254
                   /\ Len(inq) - Len(inq') = length - 1
                   /\ Len(aduResponse'[p]) = 6 + length
                   /\ aduResponse'[p] = FrameOf(p)]_vars

\* Send has returned a frame of the greatest length, 260 bytes.
C6_Witness ==
    \E p \in Callers :
        /\ pc[p] = "idle"
        /\ err[p] = NoErr
        /\ Len(aduResponse[p]) = tcpMaxLength

\* C7, as the spec has it: when a response is rejected with the header-length
\* error, link_recovery_timeout > 0 and the recovery deadline is still ahead,
\* Send closes the connection and sleeps link_recovery_timeout before it
\* dials and writes again; when link_recovery_timeout = 0 the error is
\* returned, whatever protocol_recovery_timeout is.
C7_HeaderLengthClosesAndSleeps ==
    [][\A p \in Callers :
         (HeaderRead(p) /\ (Uint16(inq, 5) = 0 \/ Uint16(inq, 5) > 254)) =>
            /\ (cfg.LinkRecoveryTimeout > 0 /\ InTime(p)) =>
                  /\ conn' = 0
                  /\ pc'[p] = "sleep"
                  /\ wake'[p] = now + cfg.LinkRecoveryTimeout
            /\ cfg.LinkRecoveryTimeout = 0 => Returned(p, ErrTCPHeaderLength)]_vars

\* C8: when the read of the header fails with EOF or unexpected EOF,
\* link_recovery_timeout > 0 and the recovery deadline has not passed, Send
\* closes the connection, sleeps link_recovery_timeout, dials and writes the
\* request again; a read timeout, and an EOF with link_recovery_timeout = 0
\* or after the deadline, is returned at once with nothing written or closed.
C8_HeaderEOF ==
    [][\A p \in Callers :
         /\ (pc[p] = "readHeader" /\ pc'[p] # "readHeader"
                /\ err'[p] \in {ErrEOF, ErrUnexpectedEOF}) =>
               IF cfg.LinkRecoveryTimeout > 0 /\ ~(later > recoveryDeadline[p])
               THEN /\ conn # 0 /\ conn' = 0
                    /\ pc'[p] = "sleep"
                    /\ wake'[p] = now + cfg.LinkRecoveryTimeout
                    /\ mu' = p
               ELSE /\ Returned(p, err'[p])
                    /\ conn' = conn
                    /\ wire' = wire
         /\ (pc[p] = "readHeader" /\ pc'[p] # "readHeader" /\ err'[p] = ErrTimeout) =>
               /\ Returned(p, ErrTimeout)
               /\ conn' = conn
               /\ wire' = wire
         /\ (pc[p] = "sleep" /\ pc'[p] # "sleep") =>
               /\ later >= wake[p]
               /\ conn = 0
               /\ pc'[p] = "loop"
         /\ (pc[p] = "loop" /\ conn = 0 /\ pc'[p] # "loop") =>
               \/ pc'[p] = "write" /\ conn' # 0 /\ dials' = dials + 1
               \/ Returned(p, ErrDial)
         /\ (pc[p] = "write" /\ pc'[p] = "readHeader") =>
               /\ wire'.last = Tid(aduRequest[p])
               /\ stat'[p].writes = stat[p].writes + 1]_vars

\* After an EOF, Send has closed, slept, dialled and written the request a
\* second time.
C8_Witness ==
    \E p \in Callers :
        /\ pc[p] = "readHeader"
        /\ stat[p].closes = 1
        /\ stat[p].writes = 2
        /\ conn # 0

\* C9: when a complete response has the transaction id of the request and
\* another protocol id or unit id, Send writes the request again on the same
\* connection, without closing it, if protocol_recovery_timeout > 0 and the
\* recovery deadline is still ahead; otherwise it returns that error.
C9_OtherVerifyErrors ==
    [][\A p \in Callers :
         /\ LET req == aduRequest[p]
                rsp == FrameOf(p)
                e == IF Uint16(rsp, 3) # Uint16(req, 3) THEN ErrProtocolID ELSE ErrUnitID
            IN  (/\ BodyRead(p)
                 /\ Tid(rsp) = Tid(req)
                 /\ (Uint16(rsp, 3) # Uint16(req, 3) \/ rsp[7] # req[7])) =>
                    IF cfg.ProtocolRecoveryTimeout > 0 /\ InTime(p)
                    THEN Resent(p) /\ err'[p] = e
                    ELSE Returned(p, e)
         /\ LoopWrites(p)]_vars

\* Send is about to write again after a response with another unit id.
C9_Witness ==
    \E p \in Callers :
        /\ pc[p] = "loop"
        /\ err[p] = ErrUnitID
        /\ stat[p].writes = 1
        /\ conn # 0

\* C10: when the write of the request fails, Send returns the write error
\* at once: it has read nothing, written nothing more, closed nothing and
\* dialled nothing after the failed write, whatever the recovery timeouts
\* are.  A write fails for one when the deadline of the connection is over.
C10_WriteError ==
    [][\A p \in Callers :
         (/\ pc[p] = "write"
          /\ pc'[p] # "write"
          /\ \/ err'[p] = ErrWrite
             \/ \E d \in ioDeadline : later >= d) =>
            /\ Returned(p, ErrWrite)
            /\ conn' = conn
            /\ inq' = inq
            /\ wire' = wire
            /\ stat' = stat
            /\ dials' = dials]_vars

\* A Send has returned a write error with both recovery timeouts set.
C10_Witness ==
    \E p \in Callers :
        /\ pc[p] = "idle"
        /\ err[p] = ErrWrite
        /\ cfg.LinkRecoveryTimeout > 0
        /\ cfg.ProtocolRecoveryTimeout > 0

\* The Send of p has written as often as the model lets it.
AtWriteBound(p) == pc[p] = "write" /\ stat[p].writes = MaxWrites

\* This step, a dial, a write or a read of the Send of p ends in an error.
ErrorStep(p) ==
    /\ pc[p] \in {"loop", "write", "readHeader", "readBody"}
    /\ pc'[p] # "readBody"
    /\ err'[p] # NoErr
    /\ pc'[p] # pc[p] \/ stat'[p].discards # stat[p].discards

\* C11: every Send returns (short of the bound on its writes), given that
\* dials, writes and reads return and time goes on.  Its recovery deadline is
\* the time of its entry plus idle_timeout and is not set again; it goes
\* round its loop, drops a reply or sleeps only while the deadline is ahead,
\* and once the deadline has passed the next error ends the call and is what
\* the caller gets.
C11_SendReturns ==
    /\ \A p \in Callers :
          (pc[p] = "encoded" \/ pc[p] \in SendPcs) ~> (pc[p] = "idle" \/ AtWriteBound(p))
    /\ [][\A p \in Callers :
            /\ (pc[p] = "encoded" /\ pc'[p] # "encoded") =>
                  recoveryDeadline'[p] = now + cfg.IdleTimeout
            /\ (pc[p] \in SendPcs /\ pc'[p] \in SendPcs /\ pc'[p] # pc[p]) =>
                  recoveryDeadline'[p] = recoveryDeadline[p]
            /\ (ErrorStep(p) /\ later > recoveryDeadline[p]) =>
                  /\ Returned(p, err'[p])
                  /\ stat'[p].writes = stat[p].writes
                  /\ stat'[p].closes = stat[p].closes
                  /\ conn' = conn
            /\ (pc[p] \in {"readHeader", "readBody"} /\ pc'[p] \in {"loop", "sleep"}) =>
                  later < recoveryDeadline[p]
            /\ stat'[p].discards > stat[p].discards =>
                  later < recoveryDeadline[p]]_vars

\* A Send with both recovery timeouts set has returned the error of a
\* malformed reply: its deadline had passed.
C11_Witness ==
    \E p \in Callers :
        /\ pc[p] = "idle"
        /\ err[p] \in {ErrTCPHeaderLength, ErrUnitID, ErrProtocolID}
        /\ stat[p].writes >= 1
        /\ cfg.LinkRecoveryTimeout > 0
        /\ cfg.ProtocolRecoveryTimeout > 0

\* C12: when Close returns the transport has no connection, also when
\* closing the connection gave an error, which Close then returns; Close on a
\* transport that has no connection returns nil and changes nothing.
C12_CloseClears ==
    [][\A p \in Procs :
         (pc[p] = "close" /\ pc'[p] # "close") =>
            /\ pc'[p] = "idle"
            /\ mu' = NoProc
            /\ conn' = 0
            /\ err'[p] \in {NoErr, ErrClose}
            /\ conn = 0 =>
                  /\ err'[p] = NoErr
                  /\ UNCHANGED << closeTimer, lastActivity, ioDeadline, inq,
                                  srvPending, srvClosed, dials, transactionID,
                                  lastAttemptedTransactionID,
                                  lastSuccessfulTransactionID >>]_vars

\* Close has returned the error of closing the connection, and the
\* transport has no connection.
C12_Witness ==
    \E p \in Procs :
        /\ pc[p] = "idle"
        /\ err[p] = ErrClose
        /\ conn = 0
        /\ dials >= 1

\* Nobody is inside a call or about to make one.
AllIdle == \A p \in Procs : pc[p] = "idle"

\* C13: with idle_timeout > 0, when a Send has returned and left a
\* connection, and no further Send comes, the idle timer closes the
\* connection in the end; closeIdle closes it only with idle_timeout > 0 and
\* once idle_timeout has gone by since lastActivity.
C13_IdleClose ==
    /\ (cfg.IdleTimeout > 0 /\ conn # 0 /\ AllIdle) ~> (conn = 0 \/ ~AllIdle)
    /\ [][(pc[Timer] = "closeIdle" /\ conn' # conn) =>
             /\ conn' = 0
             /\ cfg.IdleTimeout > 0
             /\ later - lastActivity >= cfg.IdleTimeout]_vars

\* A Send returned a response and left the connection open; the idle timer
\* has closed it since.
C13_Witness ==
    \E p \in Callers :
        /\ AllIdle
        /\ pc[Timer] = "idle"
        /\ err[p] = NoErr
        /\ stat[p].writes >= 1
        /\ stat[p].closes = 0
        /\ conn = 0

\* C15: the idle-close callback never closes the connection while a Send is
\* executing: a callback whose timer fired during a Send waits for the
\* mutex; when it runs no Send is under way, and it closes the connection
\* exactly when now - lastActivity >= IdleTimeout, and otherwise leaves the
\* connection as it is.
C15_CloseIdleGuarded ==
    /\ [][(pc[Timer] = "fired" /\ \E p \in Procs : pc[p] \in SendPcs)
             => pc'[Timer] = "fired"]_vars
    /\ [][pc[Timer] = "closeIdle" =>
             /\ \A p \in Procs : pc[p] \notin SendPcs
             /\ conn' # conn => pc'[Timer] = "idle"
             /\ pc'[Timer] = "idle" =>
                IF cfg.IdleTimeout > 0 /\ later - lastActivity >= cfg.IdleTimeout
                   THEN conn' = 0
                   ELSE conn' = conn]_vars

\* The callback runs after a Send that updated lastActivity less than
\* IdleTimeout ago, and the connection is open.
C15_Witness ==
    /\ pc[Timer] = "closeIdle"
    /\ conn # 0
    /\ cfg.IdleTimeout > 0
    /\ later - lastActivity < cfg.IdleTimeout
    /\ \E p \in Callers : stat[p].writes >= 1

\* ------------------------------------------------------------ RTU frames

MaxQuantity == 2

\* The function codes the client issues (client.go, one function each).
RtuFunctionCodes ==
    { readCoilsFunctionCode, readDiscreteInputsFunctionCode,
      readHoldingRegisterFunctionCode, readInputRegisterFunctionCode,
      writeSingleCoilFunctionCode, writeSingleRegisterFunctionCode,
      writeMultipleCoilsFunctionCode, writeMultipleRegisterFunctionCode,
      maskWriteRegisterFunctionCode, readWriteMultipleRegisterFunctionCode,
      readFifoQueueFunctionCode, FuncCodeReadDeviceIdentification }

\* n bytes of values.
Values(n) == [i \in 1..n |-> 16 + i]

\* ReadCoils, ReadDiscreteInputs: byte count, then that many bytes.
ReadBitsResponses == { << n >> \o Values(n) : n \in 1..MaxQuantity }

\* ReadHoldingRegisters, ReadInputRegisters, ReadWriteMultipleRegisters:
\* byte count, then two bytes for each register.
ReadRegistersResponses == { << 2 * n >> \o Values(2 * n) : n \in 1..MaxQuantity }

\* WriteSingleCoil, WriteSingleRegister, WriteMultipleCoils,
\* WriteMultipleRegisters: the address and the value or quantity.
WriteResponses == { << 0, 1, 0, 1 >> }

\* MaskWriteRegister: the address, the AND mask and the OR mask.
MaskWriteResponses == { << 0, 1, 0, 255, 0, 0 >> }

\* ReadFIFOQueue: a two-byte byte count, a two-byte FIFO count, the registers.
ReadFIFOQueueResponses ==
    { << 0, 2 + 2 * n, 0, n >> \o Values(2 * n) : n \in 0..MaxQuantity }

\* ReadDeviceIdentification: MEI type, device id code, conformity level,
\* more follows, next object id, number of objects, then one object: its
\* id, its length and its value.
ReadDeviceIdentificationResponses ==
    { << MEIType, 1, 1, 0, 0, 1, 0, n >> \o Values(n) : n \in 1..MaxQuantity }

\* The data of the valid responses to a request with this function code.
ResponseData(functionCode) ==
    IF functionCode \in {readCoilsFunctionCode, readDiscreteInputsFunctionCode}
    THEN ReadBitsResponses
    ELSE IF functionCode \in {readHoldingRegisterFunctionCode,
                              readInputRegisterFunctionCode,
                              readWriteMultipleRegisterFunctionCode}
    THEN ReadRegistersResponses
    ELSE IF functionCode \in RtuFourBytes THEN WriteResponses
    ELSE IF functionCode = maskWriteRegisterFunctionCode THEN MaskWriteResponses
    ELSE IF functionCode = readFifoQueueFunctionCode THEN ReadFIFOQueueResponses
    ELSE ReadDeviceIdentificationResponses

\* The exception codes a device answers with.
ExceptionCodes == {1, 2}

\* rtuPackager.Encode: slave id, function code, data, checksum.
RtuEncode(slaveID, functionCode, pduData) ==
    LET adu == << slaveID, functionCode >> \o pduData
    IN  adu \o CrcBytes(adu)

\* The frames of the valid responses of a device to this function code.
RtuResponses(slaveID, functionCode) ==
    { RtuEncode(slaveID, functionCode, d) : d \in ResponseData(functionCode) }

\* The frames of its exception responses: the function code with bit 7 set
\* and the exception code.
RtuExceptions(slaveID, functionCode) ==
    { RtuEncode(slaveID, Xor(functionCode, 128, 8), << e >>) : e \in ExceptionCodes }

\* ------------------------------------------------------------ the RTU reader at work

\* readIncrementally: one Read and the round of the loop it starts, up to
\* the next Read or the return.  The deadline is looked at on the way to the
\* next Read.  Called by rtuSerialTransporter.Send (at "rtuRead") on the
\* port, where a Read that gets no byte for Config.Timeout fails, or by
\* itself (at "rtuParse") on a reader that holds a whole input and then
\* ends.  When Send returns, its deferred functions set lastActivity and
\* unlock the mutex.
RtuRead(p) ==
    /\ pc[p] \in {"rtuRead", "rtuParse"}
    /\ LET inSend == pc[p] = "rtuRead"
           byte == inq # << >>
           eof == inq = << >> /\ srvClosed
           timeout == inq = << >> /\ ~srvClosed /\ later >= wake[p]
           deadline == IF byte /\ rtu.state = stateSlaveID /\ rtu.delay > 0
                       THEN {now + rtu.delay}
                       ELSE ioDeadline
           step == IF byte THEN RtuStep(rtu, Head(inq)) ELSE rtu
           out == IF eof
                  THEN [rtu EXCEPT !.err = ErrEOF, !.returned = TRUE]
                  ELSE IF timeout
                  THEN [rtu EXCEPT !.err = ErrTimeout, !.returned = TRUE]
                  ELSE IF ~step.returned /\ \E d \in deadline : later > d
                  THEN [step EXCEPT !.err = ErrRtuDeadline, !.returned = TRUE]
                  ELSE step
       IN  /\ byte \/ eof \/ timeout
           /\ rtu' = out
           /\ UNCHANGED pack
           /\ inq' = IF byte THEN Tail(inq) ELSE inq
           /\ ioDeadline' = deadline
           /\ wake' = [wake EXCEPT ![p] = now + cfg.Timeout]
           /\ IF out.returned
              THEN /\ pc' = [pc EXCEPT ![p] = "idle"]
                   /\ aduResponse' = [aduResponse EXCEPT ![p] =
                          IF out.err = NoErr THEN out.data ELSE << >>]
                   /\ err' = [err EXCEPT ![p] = out.err]
                   /\ lastActivity' = IF inSend THEN now ELSE lastActivity
                   /\ mu' = IF inSend THEN NoProc ELSE mu
              ELSE UNCHANGED << pc, aduResponse, err, lastActivity, mu >>
    /\ UNCHANGED << cfg, transactionID, conn, closeTimer,
                    lastAttemptedTransactionID, lastSuccessfulTransactionID,
                    aduRequest, recoveryDeadline, data, srvPending, srvClosed,
                    calls, faults, dials, stat, wire, run >>

\* A handler of a serial port that was never opened.
InitPort ==
    /\ transactionID = [hi |-> 0, lo |-> 0]
    /\ lastAttemptedTransactionID = 0
    /\ lastSuccessfulTransactionID = 0
    /\ mu = NoProc
    /\ conn = 0
    /\ closeTimer = [set |-> FALSE, armed |-> FALSE, at |-> 0]
    /\ ioDeadline = {}
    /\ aduRequest = [p \in Procs |-> << >>]
    /\ recoveryDeadline = [p \in Procs |-> 0]
    /\ data = [p \in Procs |-> << >>]
    /\ aduResponse = [p \in Procs |-> << >>]
    /\ err = [p \in Procs |-> NoErr]
    /\ wake = [p \in Procs |-> 0]
    /\ srvPending = << >>
    /\ calls = [p \in Procs |-> 0]
    /\ faults = 0
    /\ dials = 0
    /\ stat = [p \in Procs |-> NoStat]
    /\ wire = NoWire
    /\ run = NoRun

\* readIncrementally is called with a slave id, a function code and a reader
\* that holds one response of the device to that function code, valid or
\* an exception, and nothing after it.
InitRtu ==
    /\ InitPort
    /\ cfg = [Timeout |-> 2, IdleTimeout |-> 0,
              LinkRecoveryTimeout |-> 0, ProtocolRecoveryTimeout |-> 0]
    /\ lastActivity = 0
    /\ pc = [p \in Procs \cup {Timer} |->
                IF p \in Callers THEN "rtuParse" ELSE "idle"]
    /\ srvClosed = TRUE
    /\ \E functionCode \in RtuFunctionCodes :
          /\ rtu = RtuStart(SlaveID, functionCode, 0)
          /\ pack = NoPack
          /\ inq \in RtuResponses(SlaveID, functionCode)
                       \cup RtuExceptions(SlaveID, functionCode)

NextRtu == \E p \in Callers : RtuRead(p)

SpecRtu == InitRtu /\ [][NextRtu]_vars

\* ------------------------------------------------------------ the serial RTU transport

\* The variables of the TCP transport stand for the serial port here: conn
\* is serialPort.port, srvPending the bytes the device has still to put on
\* the line, inq the bytes that arrived and were not read.

\* Send's sleeps, in half ticks: twice the frame delay before a frame, the
\* transmission of the request after it; and the time readIncrementally
\* gives the response once it started.
RtuFrameGap == 2
RtuSendDuration == 2
RtuResponseDuration == 2

SerialIdleTimeouts == {0, 2, 4}

\* The request of ReadInputRegisters(0, 1).
RtuRequest == RtuEncode(SlaveID, readInputRegisterFunctionCode, << 0, 0, 0, 1 >>)

\* What the device may send back: the register, an exception, or nothing.
RtuReplies ==
    { RtuEncode(SlaveID, readInputRegisterFunctionCode, << 2 >> \o Values(2)),
      RtuEncode(SlaveID, Xor(readInputRegisterFunctionCode, 128, 8), << 2 >>),
      << >> }

\* serialPort.startCloseTimer
serialStartCloseTimer(timer, t, idleTimeout) ==
    IF idleTimeout <= 0 THEN timer
    ELSE [set |-> TRUE, armed |-> TRUE, at |-> t + idleTimeout]

SerialPcs == {"rtuConnect", "rtuGap", "rtuSent", "rtuRead"}

\* client.send: packager.Encode, then transporter.Send is called.
RtuCall(p) ==
    /\ pc[p] = "idle"
    /\ calls[p] < Quota(p)
    /\ calls' = [calls EXCEPT ![p] = @ + 1]
    /\ aduRequest' = [aduRequest EXCEPT ![p] = RtuRequest]
    /\ aduResponse' = [aduResponse EXCEPT ![p] = << >>]
    /\ err' = [err EXCEPT ![p] = NoErr]
    /\ pc' = [pc EXCEPT ![p] = "rtuCalled"]
    /\ UNCHANGED << pack, rtu, cfg, transactionID, mu, conn, closeTimer, lastActivity,
                    lastAttemptedTransactionID, lastSuccessfulTransactionID,
                    ioDeadline, recoveryDeadline, data, wake, inq, srvPending,
                    srvClosed, faults, dials, stat, wire, run >>

\* rtuSerialTransporter.Send: mb.mu.Lock()
RtuSendLock(p) ==
    /\ pc[p] = "rtuCalled"
    /\ TryLock(mu)
    /\ mu' = p
    /\ pc' = [pc EXCEPT ![p] = "rtuConnect"]
    /\ UNCHANGED << pack, rtu, cfg, transactionID, conn, closeTimer, lastActivity,
                    lastAttemptedTransactionID, lastSuccessfulTransactionID,
                    ioDeadline, aduRequest, recoveryDeadline, data, aduResponse,
                    err, wake, inq, srvPending, srvClosed, calls, faults, dials,
                    stat, wire, run >>

\* Send: mb.connect(), which opens the port when there is none and may
\* fail; then the sleep until twice the frame delay after lastActivity
\* begins.  A failed connect returns before the deferred function that sets
\* lastActivity is registered.
RtuSendConnect(p) ==
    /\ pc[p] = "rtuConnect"
    /\ \/ /\ conn # 0
          /\ wake' = [wake EXCEPT ![p] = lastActivity + RtuFrameGap]
          /\ pc' = [pc EXCEPT ![p] = "rtuGap"]
          /\ UNCHANGED << conn, dials, faults, inq, srvPending, srvClosed, err, mu >>
       \/ /\ conn = 0
          /\ conn' = dials + 1
          /\ dials' = dials + 1
          /\ inq' = << >>
          /\ srvPending' = << >>
          /\ srvClosed' = FALSE
          /\ wake' = [wake EXCEPT ![p] = lastActivity + RtuFrameGap]
          /\ pc' = [pc EXCEPT ![p] = "rtuGap"]
          /\ UNCHANGED << faults, err, mu >>
       \/ /\ conn = 0
          /\ faults < MaxFaults
          /\ faults' = faults + 1
          /\ err' = [err EXCEPT ![p] = ErrOpen]
          /\ mu' = NoProc
          /\ pc' = [pc EXCEPT ![p] = "idle"]
          /\ UNCHANGED << conn, dials, inq, srvPending, srvClosed, wake >>
    /\ UNCHANGED << pack, rtu, cfg, transactionID, closeTimer, lastActivity,
                    lastAttemptedTransactionID, lastSuccessfulTransactionID,
                    ioDeadline, aduRequest, recoveryDeadline, data, aduResponse,
                    calls, stat, wire, run >>

\* Send, when the sleep is over: mb.lastActivity = time.Now(),
\* mb.startCloseTimer(), mb.port.Write(aduRequest).  After the write the
\* sleep for the transmission of the request begins; a failed write
\* returns, and the deferred functions set lastActivity and unlock.
RtuSendWrite(p) ==
    /\ pc[p] = "rtuGap"
    /\ later >= wake[p]
    /\ lastActivity' = now
    /\ closeTimer' = serialStartCloseTimer(closeTimer, now, cfg.IdleTimeout)
    /\ \/ /\ srvPending' \in RtuReplies
          /\ wake' = [wake EXCEPT ![p] = now + RtuSendDuration]
          /\ pc' = [pc EXCEPT ![p] = "rtuSent"]
          /\ UNCHANGED << faults, err, mu >>
       \/ /\ faults < MaxFaults
          /\ faults' = faults + 1
          /\ err' = [err EXCEPT ![p] = ErrWrite]
          /\ mu' = NoProc
          /\ pc' = [pc EXCEPT ![p] = "idle"]
          /\ UNCHANGED << srvPending, wake >>
    /\ UNCHANGED << pack, rtu, cfg, transactionID, conn,
                    lastAttemptedTransactionID, lastSuccessfulTransactionID,
                    ioDeadline, aduRequest, recoveryDeadline, data, aduResponse,
                    inq, srvClosed, calls, dials, stat, wire, run >>

\* Send, when the request is on the line: readIncrementally is called with
\* the slave id and the function code of the request and the response
\* duration; its first Read begins.
RtuSendSent(p) ==
    /\ pc[p] = "rtuSent"
    /\ later >= wake[p]
    /\ rtu' = RtuStart(aduRequest[p][1], aduRequest[p][2], RtuResponseDuration)
    /\ UNCHANGED pack
    /\ ioDeadline' = {}
    /\ wake' = [wake EXCEPT ![p] = now + cfg.Timeout]
    /\ pc' = [pc EXCEPT ![p] = "rtuRead"]
    /\ UNCHANGED << cfg, transactionID, mu, conn, closeTimer, lastActivity,
                    lastAttemptedTransactionID, lastSuccessfulTransactionID,
                    aduRequest, recoveryDeadline, data, aduResponse, err,
                    inq, srvPending, srvClosed, calls, faults, dials,
                    stat, wire, run >>

\* serialPort.closeIdle: mb.mu.Lock()
SerialCloseIdleLock ==
    /\ pc[Timer] = "fired"
    /\ TryLock(mu)
    /\ mu' = Timer
    /\ pc' = [pc EXCEPT ![Timer] = "closeIdle"]
    /\ UNCHANGED << pack, rtu, cfg, transactionID, conn, closeTimer, lastActivity,
                    lastAttemptedTransactionID, lastSuccessfulTransactionID,
                    ioDeadline, aduRequest, recoveryDeadline, data, aduResponse,
                    err, wake, inq, srvPending, srvClosed, calls, faults, dials,
                    stat, wire, run >>

\* serialPort.closeIdle: the two checks, mb.close(), the deferred Unlock.
SerialCloseIdleBody ==
    /\ pc[Timer] = "closeIdle"
    /\ IF cfg.IdleTimeout > 0 /\ IdleElapsed(later, lastActivity, cfg.IdleTimeout) /\ conn # 0
       THEN /\ conn' = 0
            /\ inq' = << >>
            /\ srvPending' = << >>
       ELSE UNCHANGED << conn, inq, srvPending >>
    /\ mu' = NoProc
    /\ pc' = [pc EXCEPT ![Timer] = "idle"]
    /\ UNCHANGED << pack, rtu, cfg, transactionID, closeTimer, lastActivity,
                    lastAttemptedTransactionID, lastSuccessfulTransactionID,
                    ioDeadline, aduRequest, recoveryDeadline, data, aduResponse,
                    err, wake, srvClosed, calls, faults, dials, stat, wire, run >>

\* The device puts bytes of its response on the line: all that is left of
\* it, or the next two and then it stalls for a while.
SerialTransmit ==
    /\ conn # 0
    /\ srvPending # << >>
    /\ \E n \in {Min(2, Len(srvPending)), Len(srvPending)} :
          /\ inq' = inq \o SubSeq(srvPending, 1, n)
          /\ srvPending' = SubSeq(srvPending, n + 1, Len(srvPending))
    /\ UNCHANGED << pack, rtu, cfg, transactionID, mu, conn, closeTimer, lastActivity,
                    lastAttemptedTransactionID, lastSuccessfulTransactionID,
                    ioDeadline, pc, aduRequest, recoveryDeadline, data,
                    aduResponse, err, wake, srvClosed, calls, faults, dials,
                    stat, wire, run >>

\* The goroutine waits: for the mutex, for a sleep to end, or in a Read.
SerialWaiting(p) ==
    \/ pc[p] = "idle"
    \/ pc[p] = "rtuCalled" /\ ~TryLock(mu)
    \/ pc[p] \in {"rtuGap", "rtuSent"} /\ later < wake[p]
    \/ pc[p] = "rtuRead" /\ inq = << >> /\ later < wake[p]

\* One clock tick, while every goroutine waits.  Every kept instant moves
\* one tick into the past; lastActivity is only compared with IdleTimeout
\* and with the frame gap.
SerialTick ==
    /\ TimerWaiting
    /\ \A p \in Procs : SerialWaiting(p)
    /\ lastActivity' = Max(lastActivity - 2, now - Max(cfg.IdleTimeout, RtuFrameGap))
    /\ ioDeadline' = { Max(d - 2, now) : d \in ioDeadline }
    /\ closeTimer' = [closeTimer EXCEPT !.at = Max(@ - 2, now)]
    /\ wake' = [p \in Procs |-> Max(wake[p] - 2, now)]
    /\ UNCHANGED << pack, rtu, cfg, transactionID, mu, conn,
                    lastAttemptedTransactionID, lastSuccessfulTransactionID,
                    pc, aduRequest, recoveryDeadline, data, aduResponse, err,
                    inq, srvPending, srvClosed, calls, faults, dials,
                    stat, wire, run >>

\* A new RTU client handler: no port, no timer, nothing done yet.
InitSerial ==
    /\ InitPort
    /\ cfg \in [Timeout : Timeouts, IdleTimeout : SerialIdleTimeouts,
                LinkRecoveryTimeout : {0}, ProtocolRecoveryTimeout : {0}]
    /\ rtu = NoRtu
    /\ pack = NoPack
    /\ lastActivity = now - Max(cfg.IdleTimeout, RtuFrameGap)
    /\ pc = [p \in Procs \cup {Timer} |-> "idle"]
    /\ inq = << >>
    /\ srvClosed = FALSE

NextSerial ==
    \/ \E p \in Procs :
          \/ RtuCall(p)
          \/ RtuSendLock(p)
          \/ RtuSendConnect(p)
          \/ RtuSendWrite(p)
          \/ RtuSendSent(p)
          \/ RtuRead(p)
    \/ TimerFire
    \/ SerialCloseIdleLock
    \/ SerialCloseIdleBody
    \/ SerialTransmit
    \/ SerialTick

SpecSerial == InitSerial /\ [][NextSerial]_vars

\* ------------------------------------------------------------ claims on the serial transport

\* C14: with IdleTimeout > 0, when a Send has returned and nothing else is
\* called, the idle timer closes the port.  As a condition on states: an
\* open port with nobody at work has its timer pending (armed, or fired and
\* its callback on the way); otherwise nothing is left that closes it.
C14_IdleTimerPending ==
    (cfg.IdleTimeout > 0 /\ conn # 0 /\ AllIdle) =>
        closeTimer.armed \/ pc[Timer] # "idle"

\* ------------------------------------------------------------ claims on the RTU reader

\* readIncrementally has returned the whole input as its frame, without error.
ReturnedFrame ==
    /\ rtu.err = NoErr
    /\ inq = << >>
    /\ rtu.data = rtu.fed
    /\ \A p \in Callers : aduResponse[p] = rtu.fed /\ err[p] = NoErr

\* The input was an exception response.
FedException ==
    Len(rtu.fed) >= 2 /\ rtu.fed[2] = Xor(rtu.functionCode, 128, 8)

\* C19: for every supported function code, the reader fed a valid response
\* byte by byte returns exactly that frame, slave id through CRC, and fed an
\* exception response returns exactly that ADU of five bytes.
C19_ReaderReturnsFrame ==
    rtu.returned =>
        /\ ReturnedFrame
        /\ FedException => Len(rtu.data) = rtuExceptionSize

\* C20: a well-formed response to Read FIFO Queue is returned in full and
\* is never rejected for its length.
C20_FifoAccepted ==
    (rtu.returned /\ rtu.functionCode = readFifoQueueFunctionCode /\ ~FedException) =>
        /\ rtu.err # ErrInvalidLength
        /\ ReturnedFrame

\* ------------------------------------------------------------ a handler with a longer timeout

\* A new TCP handler whose Timeout is two ticks: a response may be read a
\* tick after the request was written.
SlowTimeout == 4

InitSlow ==
    /\ InitPort
    /\ cfg \in [Timeout : {SlowTimeout}, IdleTimeout : IdleTimeouts,
                LinkRecoveryTimeout : LinkRecoveryTimeouts,
                ProtocolRecoveryTimeout : ProtocolRecoveryTimeouts]
    /\ rtu = NoRtu
    /\ pack = NoPack
    /\ lastActivity = 0
    /\ pc = [p \in Procs \cup {Timer} |-> "idle"]
    /\ inq = << >>
    /\ srvClosed = FALSE

SpecSlow == InitSlow /\ [][Next]_vars

\* ------------------------------------------------------------ claims on the cached connection

\* C16: when a Send returns a response, lastActivity is not earlier than
\* the moment that response was read.
C16_ActivityAtRead ==
    [][\A p \in Callers :
          (BodyRead(p) /\ Returned(p, NoErr)) => lastActivity' >= now]_vars

\* C17: with IdleTimeout = 0 the transport holds no connection when a Send
\* returns, with a response or with an error, and no idle timer is armed.
C17_NothingKept ==
    [][\A p \in Callers :
          (cfg.IdleTimeout = 0 /\ pc[p] \in SendPcs /\ pc'[p] = "idle")
              => conn' = 0 /\ ~closeTimer'.armed]_vars

StrayBytes == {0, 255}

\* seq with the byte b put in after its first k bytes.
Insert(seq, k, b) == SubSeq(seq, 1, k) \o << b >> \o SubSeq(seq, k + 1, Len(seq))

\* n bytes of payload.
Payload(n) == [i \in 1..n |-> i % 256]

\* The length bytes at and around the limits of stateReadLength.
EdgeLengths == {0, 1, 250, 251, 252, 255}

\* The function codes the reader is tried with on such input.
TriedFunctionCodes ==
    { readHoldingRegisterFunctionCode, writeSingleRegisterFunctionCode }

\* What the line may hold when the response to functionCode is read: the
\* response or the exception as they are, either with one stray byte before
\* the slave id, before the function code or after it, or a frame whose
\* length byte is at or beyond a limit.
LineInputs(functionCode) ==
    LET frames == RtuResponses(SlaveID, functionCode)
                     \cup RtuExceptions(SlaveID, functionCode)
    IN  frames
           \cup { Insert(f, k, b) : f \in frames, k \in 0..2, b \in StrayBytes }
           \cup IF functionCode \in RtuLengthPrefixed
                THEN { RtuEncode(SlaveID, functionCode, << n >> \o Payload(n)) :
                          n \in EdgeLengths }
                ELSE {}

\* readIncrementally is called on a reader that holds such an input.
InitRtuAny ==
    /\ InitPort
    /\ cfg = [Timeout |-> 2, IdleTimeout |-> 0,
              LinkRecoveryTimeout |-> 0, ProtocolRecoveryTimeout |-> 0]
    /\ lastActivity = 0
    /\ pc = [p \in Procs \cup {Timer} |->
                IF p \in Callers THEN "rtuParse" ELSE "idle"]
    /\ srvClosed = TRUE
    /\ \E functionCode \in TriedFunctionCodes :
          /\ rtu = RtuStart(SlaveID, functionCode, 0)
          /\ pack = NoPack
          /\ inq \in LineInputs(functionCode)

SpecRtuAny == InitRtuAny /\ [][NextRtu]_vars

\* This step, the reader takes the byte b from its input.
Takes(b) == inq # << >> /\ Head(inq) = b /\ inq' = Tail(inq)

\* C21: in stateFunctionCode a byte that is neither the function code nor
\* the function code with bit 7 set makes the reader return an error; it is
\* never skipped, so a returned frame is made of consecutive bytes of the
\* input, from the accepted slave id on.
C21_StrayFunctionCodeFails ==
    /\ [][\A b \in 0..255 :
            (/\ rtu.state = stateFunctionCode
             /\ Takes(b)
             /\ b \notin {rtu.functionCode, Xor(rtu.functionCode, 128, 8)})
               => rtu'.returned /\ rtu'.err # NoErr]_vars
    /\ []((rtu.returned /\ rtu.err = NoErr) =>
             \E k \in 1..Len(rtu.fed) :
                 /\ rtu.fed[k] = rtu.slaveID
                 /\ rtu.data = SubSeq(rtu.fed, k, Len(rtu.fed)))

\* C22: in stateReadLength a byte of 0 or above rtuMaxSize - 5 ends the
\* reader with InvalidLengthError carrying that value; every other value is
\* accepted, and then exactly that many bytes of payload and 2 bytes of CRC
\* are taken.
C22_LengthLimits ==
    /\ [][\A b \in 0..255 :
            (rtu.state = stateReadLength /\ Takes(b)) =>
               IF b = 0 \/ b > rtuMaxSize - 5
               THEN /\ rtu'.returned
                    /\ rtu'.err = ErrInvalidLength
                    /\ rtu'.length = b
               ELSE /\ ~rtu'.returned
                    /\ rtu'.state = stateReadPayload
                    /\ rtu'.toRead = b]_vars
    /\ [][(rtu.length # 0 /\ ~rtu.returned /\ rtu'.returned /\ rtu'.err = NoErr) =>
             /\ Len(rtu'.data) = 3 + rtu.length + 2
             /\ rtu'.data[3] = rtu.length
             /\ SubSeq(rtu'.data, 3, Len(rtu'.data))
                   = SubSeq(rtu'.fed, Len(rtu'.fed) - rtu.length - 2, Len(rtu'.fed))]_vars

\* The reader has returned a frame with the longest payload it accepts.
C22_Witness ==
    /\ rtu.returned
    /\ rtu.err = NoErr
    /\ rtu.length = rtuMaxSize - 5
    /\ Len(rtu.data) = rtuMaxSize

\* ------------------------------------------------------------ the serial transport on a noisy line

\* The open port picks up a stray byte that is not the slave id.
SerialNoise ==
    /\ conn # 0
    /\ faults < MaxFaults
    /\ faults' = faults + 1
    /\ inq' = Append(inq, 0)
    /\ UNCHANGED << pack, rtu, cfg, transactionID, mu, conn, closeTimer, lastActivity,
                    lastAttemptedTransactionID, lastSuccessfulTransactionID,
                    ioDeadline, pc, aduRequest, recoveryDeadline, data,
                    aduResponse, err, wake, srvPending, srvClosed, calls,
                    dials, stat, wire, run >>

NextLine == NextSerial \/ SerialNoise

SpecLine == InitSerial /\ [][NextLine]_vars

\* C23: the deadline of the reader is absolute: once computed, no step of
\* the reader moves it, so the reader returns within the response duration
\* of the first byte it read, also while bytes that are not the slave id
\* keep coming.
C23_DeadlineFixed ==
    [][\A p \in Procs :
          (pc[p] = "rtuRead" /\ ioDeadline # {} /\ rtu' # rtu)
              => ioDeadline' = ioDeadline]_vars

\* ------------------------------------------------------------ RTU over TCP

\* calculateResponseLength(adu): the length of the response the request
\* asks for, with adu[4:] the quantity of the request.
calculateResponseLength(adu) ==
    LET count == Uint16(adu, 5)
    IN  IF adu[2] \in {readDiscreteInputsFunctionCode, readCoilsFunctionCode}
        THEN rtuMinSize + 1 + count \div 8 + (IF count % 8 # 0 THEN 1 ELSE 0)
        ELSE IF adu[2] \in {readInputRegisterFunctionCode,
                            readHoldingRegisterFunctionCode,
                            readWriteMultipleRegisterFunctionCode}
        THEN rtuMinSize + 1 + count * 2
        ELSE IF adu[2] \in RtuFourBytes THEN rtuMinSize + 4
        ELSE IF adu[2] = maskWriteRegisterFunctionCode THEN rtuMinSize + 6
        ELSE rtuMinSize

\* RtuTCPTransporter.Send: functionFail := aduRequest[1] & 0x80
functionFail(adu) == ((adu[2] \div 128) % 2) * 128

\* RtuTCPTransporter.Send up to the write: Lock, connect, lastActivity,
\* startCloseTimer, SetDeadline, Write.  A dial or a write that fails makes
\* Send return.  The device then holds its answer.
RtuTcpSendWrite(p) ==
    /\ pc[p] = "rtuCalled"
    /\ TryLock(mu)
    /\ \/ /\ conn = 0
          /\ faults < MaxFaults
          /\ faults' = faults + 1
          /\ err' = [err EXCEPT ![p] = ErrDial]
          /\ pc' = [pc EXCEPT ![p] = "idle"]
          /\ UNCHANGED << mu, conn, dials, lastActivity, closeTimer, ioDeadline,
                          inq, srvPending, srvClosed >>
       \/ /\ conn' = IF conn = 0 THEN dials + 1 ELSE conn
          /\ dials' = IF conn = 0 THEN dials + 1 ELSE dials
          /\ lastActivity' = now
          /\ closeTimer' = startCloseTimer(closeTimer, now, cfg.IdleTimeout)
          /\ ioDeadline' = IODeadline(now, cfg.Timeout)
          /\ inq' = IF conn = 0 THEN << >> ELSE inq
          /\ srvClosed' = FALSE
          /\ \/ /\ srvPending' \in RtuReplies
                /\ mu' = p
                /\ pc' = [pc EXCEPT ![p] = "rtuTcpRead"]
                /\ UNCHANGED << faults, err >>
             \/ /\ faults < MaxFaults
                /\ faults' = faults + 1
                /\ err' = [err EXCEPT ![p] = ErrWrite]
                /\ pc' = [pc EXCEPT ![p] = "idle"]
                /\ UNCHANGED << mu, srvPending >>
    /\ data' = [data EXCEPT ![p] = << >>]
    /\ UNCHANGED << pack, rtu, cfg, transactionID, lastAttemptedTransactionID,
                    lastSuccessfulTransactionID, aduRequest, recoveryDeadline,
                    aduResponse, wake, calls, stat, wire, run >>

\* Send: the length up to which it reads after its first read, from the
\* look at data[1]: bytesToRead when the function code is the request's,
\* rtuExceptionSize when it is functionFail, and no more otherwise.
RtuTcpTarget(adu, got) ==
    LET n == Len(got)
        bytesToRead == calculateResponseLength(adu)
    IN  IF got[2] = adu[2]
        THEN IF n < bytesToRead /\ bytesToRead > rtuMinSize
                /\ bytesToRead <= rtuMaxSize
             THEN bytesToRead ELSE n
        ELSE IF got[2] = functionFail(adu)
        THEN IF n < rtuExceptionSize THEN rtuExceptionSize ELSE n
        ELSE n

\* Send: io.ReadAtLeast(mb.conn, data[:], rtuMinSize), which returns with
\* what has arrived once that is rtuMinSize bytes or more, and the look at
\* data[1].  Either Send returns data[:n], or it goes on to read the rest.
\* A deadline that passes first makes Send return the error.
RtuTcpReadMin(p) ==
    /\ pc[p] = "rtuTcpRead"
    /\ IF Len(inq) >= rtuMinSize
       THEN LET n == Min(Len(inq), rtuMaxSize)
                got == SubSeq(inq, 1, n)
            IN  /\ inq' = SubSeq(inq, n + 1, Len(inq))
                /\ data' = [data EXCEPT ![p] = got]
                /\ IF RtuTcpTarget(aduRequest[p], got) > n
                   THEN /\ pc' = [pc EXCEPT ![p] = "rtuTcpRest"]
                        /\ UNCHANGED << aduResponse, err, mu >>
                   ELSE /\ aduResponse' = [aduResponse EXCEPT ![p] = got]
                        /\ pc' = [pc EXCEPT ![p] = "idle"]
                        /\ mu' = NoProc
                        /\ UNCHANGED err
       ELSE /\ Expired(later, ioDeadline)
            /\ err' = [err EXCEPT ![p] = ErrTimeout]
            /\ pc' = [pc EXCEPT ![p] = "idle"]
            /\ mu' = NoProc
            /\ UNCHANGED << inq, data, aduResponse >>
    /\ UNCHANGED << pack, rtu, cfg, transactionID, conn, closeTimer, lastActivity,
                    lastAttemptedTransactionID, lastSuccessfulTransactionID,
                    ioDeadline, aduRequest, recoveryDeadline, wake, srvPending,
                    srvClosed, calls, faults, dials, stat, wire, run >>

\* The bytes Send still reads with io.ReadFull.
RtuTcpMissing(p) == RtuTcpTarget(aduRequest[p], data[p]) - Len(data[p])

\* Send: io.ReadFull of the bytes still missing, and the return.
RtuTcpReadRest(p) ==
    /\ pc[p] = "rtuTcpRest"
    /\ IF Len(inq) >= RtuTcpMissing(p)
       THEN /\ inq' = SubSeq(inq, RtuTcpMissing(p) + 1, Len(inq))
            /\ data' = [data EXCEPT ![p] = @ \o SubSeq(inq, 1, RtuTcpMissing(p))]
            /\ aduResponse' = [aduResponse EXCEPT ![p] = data'[p]]
            /\ UNCHANGED err
       ELSE /\ Expired(later, ioDeadline)
            /\ err' = [err EXCEPT ![p] = ErrTimeout]
            /\ UNCHANGED << inq, data, aduResponse >>
    /\ pc' = [pc EXCEPT ![p] = "idle"]
    /\ mu' = NoProc
    /\ UNCHANGED << pack, rtu, cfg, transactionID, conn, closeTimer, lastActivity,
                    lastAttemptedTransactionID, lastSuccessfulTransactionID,
                    ioDeadline, aduRequest, recoveryDeadline, wake, srvPending,
                    srvClosed, calls, faults, dials, stat, wire, run >>

\* The goroutine waits: for the mutex, or in a read for more bytes.
RtuTcpWaiting(p) ==
    \/ pc[p] = "idle"
    \/ pc[p] = "rtuCalled" /\ ~TryLock(mu)
    \/ pc[p] = "rtuTcpRead" /\ Len(inq) < rtuMinSize /\ ~Expired(later, ioDeadline)
    \/ /\ pc[p] = "rtuTcpRest"
       /\ Len(inq) < RtuTcpMissing(p) /\ ~Expired(later, ioDeadline)

\* One clock tick, while every goroutine waits.
RtuTcpTick ==
    /\ \A p \in Procs : RtuTcpWaiting(p)
    /\ ioDeadline # {}
    /\ \E d \in ioDeadline : d > now
    /\ lastActivity' = Max(lastActivity - 2, now - cfg.IdleTimeout)
    /\ ioDeadline' = { Max(d - 2, now) : d \in ioDeadline }
    /\ UNCHANGED << pack, rtu, cfg, transactionID, mu, conn, closeTimer,
                    lastAttemptedTransactionID, lastSuccessfulTransactionID,
                    pc, aduRequest, recoveryDeadline, data, aduResponse, err,
                    wake, inq, srvPending, srvClosed, calls, faults, dials,
                    stat, wire, run >>

\* A new RTU over TCP handler, with no idle timeout.
InitRtuTcp ==
    /\ InitPort
    /\ cfg = [Timeout |-> 2, IdleTimeout |-> 0,
              LinkRecoveryTimeout |-> 0, ProtocolRecoveryTimeout |-> 0]
    /\ rtu = NoRtu
    /\ pack = NoPack
    /\ lastActivity = 0
    /\ pc = [p \in Procs \cup {Timer} |-> "idle"]
    /\ inq = << >>
    /\ srvClosed = FALSE

NextRtuTcp ==
    \/ \E p \in Procs :
          \/ RtuCall(p)
          \/ RtuTcpSendWrite(p)
          \/ RtuTcpReadMin(p)
          \/ RtuTcpReadRest(p)
    \/ SerialTransmit
    \/ RtuTcpTick

SpecRtuTcp == InitRtuTcp /\ [][NextRtuTcp]_vars

\* C24: Send over TCP returns an exception reply as a complete ADU of 5
\* bytes, also when its first read delivered only 4 of them, and a reply
\* with the function code of the request in its computed length.
C24_ExceptionComplete ==
    \A p \in Procs :
        (/\ pc[p] = "idle"
         /\ err[p] = NoErr
         /\ Len(aduResponse[p]) >= 2
         /\ aduResponse[p][2] = Xor(aduRequest[p][2], 128, 8))
            => Len(aduResponse[p]) = rtuExceptionSize

\* ------------------------------------------------------------ the packagers

\* A PDU: its function code and its data.
Pdu(functionCode, pduData) == [FunctionCode |-> functionCode, Data |-> pduData]

NoPdu == Pdu(0, << >>)

ErrPduLength == "length in response does not match pdu data length"
ErrRtuLength == "length of data must not be bigger than rtuMaxSize"
ErrCrc == "response crc does not match expected"
ErrLrc == "response lrc does not match expected"
ErrInvalidByte == "encoding/hex: invalid byte"

\* tcpPackager.Decode: the length field against the length of the frame,
\* in the width of a uint16, then the function code and the data.
Decode(adu) ==
    LET length == Uint16(adu, 5)
        pduLength == Len(adu) - tcpHeaderSize
    IN  IF pduLength <= 0 \/ pduLength # (length + Pow16 - 1) % Pow16
        THEN [pdu |-> NoPdu, err |-> ErrPduLength]
        ELSE [pdu |-> Pdu(adu[tcpHeaderSize + 1], Drop(adu, tcpHeaderSize + 1)),
              err |-> NoErr]

\* rtuPackager.Encode: the check of the length before the frame is made.
RtuEncodeErr(pduData) ==
    IF Len(pduData) + 4 > rtuMaxSize THEN ErrRtuLength ELSE NoErr

\* rtuPackager.Decode: the checksum of the frame against its last two
\* bytes, then the function code and the data.
RtuDecode(adu) ==
    LET length == Len(adu)
        checksum == adu[length] * 256 + adu[length - 1]
    IN  IF checksum # CrcValue(SubSeq(adu, 1, length - 2))
        THEN [pdu |-> NoPdu, err |-> ErrCrc]
        ELSE [pdu |-> Pdu(adu[2], SubSeq(adu, 3, length - 2)), err |-> NoErr]

\* ------------------------------------------------------------ LRC

\* int8(b) of a byte, and uint8(x) of an int8.
Int8(b) == IF b >= 128 THEN b - 256 ELSE b

Uint8(x) == IF x < 0 THEN x + 256 ELSE x

\* -x in the width of an int8: -(-128) wraps to -128.
NegInt8(x) == IF x = -128 THEN -128 ELSE -x

\* lrc.sum += b, in the width of a uint8.
LrcPushByte(sum, b) == (sum + b) % 256

\* lrc.push of bytes[i..j], byte after byte.
RECURSIVE LrcRange(_, _, _, _)
LrcRange(sum, bytes, i, j) ==
    LET m == (i + j) \div 2
        half == LrcRange(sum, bytes, i, m)
    IN  IF i > j THEN sum
        ELSE IF i = j THEN LrcPushByte(sum, bytes[i])
        ELSE IF half >= 0 THEN LrcRange(half, bytes, m + 1, j) ELSE 0

\* lrc.push: lrc.sum += b for every byte.
LrcPush(sum, bytes) == LrcRange(sum, bytes, 1, Len(bytes))

\* An lrc.value that returns the ones' complement.
LrcValueOnes(sum) == 255 - sum

\* lrc.value: uint8(-int8(lrc.sum))
LrcValue(sum) == Uint8(NegInt8(Int8(sum)))

\* ------------------------------------------------------------ ASCII packager

asciiMinSize == 3
asciiMaxSize == 513

\* The characters ':' and '>', CR and LF.
asciiStart == << 58, 62 >>

asciiEnd == << 13, 10 >>

\* "0123456789ABCDEF"
hexTable == [i \in 1..16 |-> IF i <= 10 THEN 47 + i ELSE 54 + i]

\* writeHex: two characters of hexTable for every byte, v>>4 then v&0x0F.
writeHex(value) ==
    [i \in 1..(2 * Len(value)) |->
        IF i % 2 = 1 THEN hexTable[(value[(i + 1) \div 2] \div 16) + 1]
        ELSE hexTable[(value[i \div 2] % 16) + 1]]

\* An encoding/hex that knows the digits and the small letters only.
fromHexCharLower(c) ==
    IF c >= 48 /\ c <= 57 THEN c - 48
    ELSE IF c >= 97 /\ c <= 102 THEN c - 97 + 10
    ELSE -1

\* encoding/hex: the value of a character, -1 for a character that is no
\* hexadecimal digit.  Digits, small and capital letters are accepted.
fromHexChar(c) ==
    IF c >= 48 /\ c <= 57 THEN c - 48
    ELSE IF c >= 97 /\ c <= 102 THEN c - 97 + 10
    ELSE IF c >= 65 /\ c <= 70 THEN c - 65 + 10
    ELSE -1

\* readHex(data): hex.Decode of data[0:2], which is one byte or an error.
readHex(chars, i) ==
    IF fromHexChar(chars[i]) < 0 \/ fromHexChar(chars[i + 1]) < 0
    THEN [value |-> 0, err |-> ErrInvalidByte]
    ELSE [value |-> fromHexChar(chars[i]) * 16 + fromHexChar(chars[i + 1]),
          err |-> NoErr]

\* hex.Decode of an even number of characters.
hexDecode(chars) ==
    LET n == Len(chars) \div 2
    IN  IF \E i \in 1..n : readHex(chars, 2 * i - 1).err # NoErr
        THEN [value |-> << >>, err |-> ErrInvalidByte]
        ELSE [value |-> [i \in 1..n |-> readHex(chars, 2 * i - 1).value],
              err |-> NoErr]

\* asciiPackager.Encode: start, address and function, data, LRC, end.
AsciiEncode(slaveID, functionCode, pduData) ==
    << asciiStart[1] >>
    \o writeHex(<< slaveID, functionCode >>)
    \o writeHex(pduData)
    \o writeHex(<< LrcValue(LrcPush(0, << slaveID, functionCode >> \o pduData)) >>)
    \o asciiEnd

\* asciiPackager.Decode: address, function code, data and LRC are read as
\* hexadecimal, and the LRC is compared with the one of what was read.
AsciiDecode(adu) ==
    LET address == readHex(adu, 2)
        function == readHex(adu, 4)
        dataEnd == Len(adu) - 4
        decoded == hexDecode(SubSeq(adu, 6, dataEnd))
        lrcVal == readHex(adu, dataEnd + 1)
        lrc == LrcValue(LrcPush(0, << address.value, function.value >>
                                   \o decoded.value))
    IN  IF address.err # NoErr THEN [pdu |-> NoPdu, err |-> address.err]
        ELSE IF function.err # NoErr THEN [pdu |-> NoPdu, err |-> function.err]
        ELSE IF decoded.err # NoErr
        THEN [pdu |-> Pdu(function.value, << >>), err |-> decoded.err]
        ELSE IF lrcVal.err # NoErr
        THEN [pdu |-> Pdu(function.value, decoded.value), err |-> lrcVal.err]
        ELSE IF lrcVal.value # lrc
        THEN [pdu |-> Pdu(function.value, decoded.value), err |-> ErrLrc]
        ELSE [pdu |-> Pdu(function.value, decoded.value), err |-> NoErr]

\* ------------------------------------------------------------ the packagers at work

Framers == {"tcp", "rtu", "ascii"}

PackSlaveIDs == {0, 1, 255}

PackFunctionCodes == {0, readHoldingRegisterFunctionCode, 131, 255}

\* The data of the PDUs tried: none, one byte, bytes whose hexadecimal form
\* has letters, the longest data of a PDU, and one byte more than that.
PackData ==
    { << >>, << 0 >>, << 171, 205 >>, << 255, 10 >>,
      Fill(252, 255), Payload(252), Payload(253) }

\* The transport is not used.
InitOffline ==
    /\ cfg = [Timeout |-> 0, IdleTimeout |-> 0,
              LinkRecoveryTimeout |-> 0, ProtocolRecoveryTimeout |-> 0]
    /\ rtu = NoRtu
    /\ lastAttemptedTransactionID = 0
    /\ lastSuccessfulTransactionID = 0
    /\ mu = NoProc
    /\ conn = 0
    /\ closeTimer = [set |-> FALSE, armed |-> FALSE, at |-> 0]
    /\ lastActivity = 0
    /\ ioDeadline = {}
    /\ pc = [p \in Procs \cup {Timer} |-> "idle"]
    /\ aduRequest = [p \in Procs |-> << >>]
    /\ recoveryDeadline = [p \in Procs |-> 0]
    /\ data = [p \in Procs |-> << >>]
    /\ aduResponse = [p \in Procs |-> << >>]
    /\ err = [p \in Procs |-> NoErr]
    /\ wake = [p \in Procs |-> 0]
    /\ inq = << >>
    /\ srvPending = << >>
    /\ srvClosed = FALSE
    /\ calls = [p \in Procs |-> 0]
    /\ faults = 0
    /\ dials = 0
    /\ stat = [p \in Procs |-> NoStat]
    /\ wire = NoWire
    /\ run = NoRun

Offline ==
    UNCHANGED << cfg, rtu, lastAttemptedTransactionID,
                 lastSuccessfulTransactionID, mu, conn, closeTimer,
                 lastActivity, ioDeadline, pc, aduRequest, recoveryDeadline,
                 data, aduResponse, err, wake, inq, srvPending, srvClosed,
                 calls, faults, dials, stat, wire, run >>

\* A packager with its slave id, and a PDU to encode.
InitPack ==
    /\ InitOffline
    /\ transactionID \in StartCounters
    /\ \E framer \in Framers, slaveID \in PackSlaveIDs,
          functionCode \in PackFunctionCodes, pduData \in PackData :
          pack = [step |-> "new", framer |-> framer, SlaveID |-> slaveID,
                  pdu |-> Pdu(functionCode, pduData),
                  adu |-> << >>, err |-> NoErr,
                  out |-> NoPdu, outErr |-> NoErr]

\* Encode of the packager: the ADU, or the error of the RTU packager for
\* data that is too long.  The MBAP packager increments its counter.
PackEncode ==
    /\ pack.step = "new"
    /\ LET slaveID == pack.SlaveID
           functionCode == pack.pdu.FunctionCode
           pduData == pack.pdu.Data
       IN  \/ /\ pack.framer = "tcp"
              /\ transactionID' = NextTransactionID(transactionID)
              /\ pack' = [pack EXCEPT
                     !.step = "encoded",
                     !.adu = Encode(transactionID', slaveID, functionCode, pduData)]
           \/ /\ pack.framer = "rtu"
              /\ UNCHANGED transactionID
              /\ pack' = [pack EXCEPT
                     !.step = "encoded",
                     !.err = RtuEncodeErr(pduData),
                     !.adu = IF RtuEncodeErr(pduData) = NoErr
                             THEN RtuEncode(slaveID, functionCode, pduData)
                             ELSE << >>]
           \/ /\ pack.framer = "ascii"
              /\ UNCHANGED transactionID
              /\ pack' = [pack EXCEPT
                     !.step = "encoded",
                     !.adu = AsciiEncode(slaveID, functionCode, pduData)]
    /\ Offline

\* Decode of the packager, of the ADU its Encode made.
PackDecode ==
    /\ pack.step = "encoded"
    /\ pack.err = NoErr
    /\ LET decoded == IF pack.framer = "tcp" THEN Decode(pack.adu)
                      ELSE IF pack.framer = "rtu" THEN RtuDecode(pack.adu)
                      ELSE AsciiDecode(pack.adu)
       IN  pack' = [pack EXCEPT !.step = "decoded",
                                !.out = decoded.pdu, !.outErr = decoded.err]
    /\ UNCHANGED transactionID
    /\ Offline

NextPack == PackEncode \/ PackDecode

SpecPack == InitPack /\ [][NextPack]_vars

\* C25: for each framer, any slave id, any function code and data of at most
\* 252 bytes, Encode succeeds, and Decode of the encoded ADU succeeds and
\* returns the same function code and the same data.
C25_RoundTrip ==
    /\ (pack.step \in {"encoded", "decoded"} /\ Len(pack.pdu.Data) <= 252)
          => pack.err = NoErr
    /\ (pack.step = "decoded" /\ Len(pack.pdu.Data) <= 252)
          => pack.outErr = NoErr /\ pack.out = pack.pdu

\* The longest PDU has gone through the ASCII framer and back.
C25_Witness ==
    /\ pack.step = "decoded"
    /\ pack.framer = "ascii"
    /\ pack.pdu = Pdu(255, Fill(252, 255))
    /\ pack.out = pack.pdu
    /\ Len(pack.adu) = asciiMaxSize

TransactionIDMismatch(request, response) ==
    [got |-> Uint16(response, 1), expected |-> Uint16(request, 1)]

NoMismatch == [got |-> -1, expected |-> -1]

ErrAsciiLength == "response length does not meet minimum"
ErrAsciiOdd == "response length is not an even number"
ErrAsciiStart == "response frame is not started with asciiStart"
ErrAsciiEnd == "response frame is not ended with asciiEnd"
ErrAsciiSlaveID == "response slave id does not match request"

\* A check of the start that knows the colon only.
isStartCharacterColon(str) == str = asciiStart[1]

\* isStartCharacter: the character is one of asciiStart.
isStartCharacter(str) == \E i \in 1..Len(asciiStart) : str = asciiStart[i]

\* asciiPackager.Verify: length, even length, start, end, slave id.
AsciiVerify(request, response) ==
    LET length == Len(response)
        responseVal == readHex(response, 2)
        requestVal == readHex(request, 2)
    IN  IF length < asciiMinSize + 6 THEN ErrAsciiLength
        ELSE IF length % 2 # 1 THEN ErrAsciiOdd
        ELSE IF ~isStartCharacter(response[1]) THEN ErrAsciiStart
        ELSE IF SubSeq(response, length - 1, length) # asciiEnd THEN ErrAsciiEnd
        ELSE IF responseVal.err # NoErr THEN responseVal.err
        ELSE IF requestVal.err # NoErr THEN requestVal.err
        ELSE IF responseVal.value # requestVal.value THEN ErrAsciiSlaveID
        ELSE NoErr

\* MBAP requests, and the responses tried on them: every field that verify
\* reads takes the value of the request and other values, and the
\* transaction id also the one of the request with its bytes swapped.
VerifyCounters == StartCounters \cup { [hi |-> 0, lo |-> 255] }

TcpRequests ==
    { Encode(NextTransactionID(c), slaveID, readInputRegisterFunctionCode,
             RequestData) :
        c \in VerifyCounters, slaveID \in {1, 255} }

TcpResponses ==
    { PutUint16(tid) \o PutUint16(protocol) \o PutUint16(5)
      \o << unit, readInputRegisterFunctionCode, 2, 0, 7 >> :
        tid \in {0, 1, 256, Pow16 - 1}, protocol \in {0, 1, 256},
        unit \in {0, 1, 255} }

\* ASCII requests, and the responses tried on them: start characters, two
\* characters for the slave id (capital and small letters, and no
\* hexadecimal digit), 2 to 6 characters after them, and the end.
AsciiRequests ==
    { AsciiEncode(slaveID, readInputRegisterFunctionCode, RequestData) :
        slaveID \in {1, 10, 171} }

AsciiResponses ==
    { << start >> \o address \o rest \o end :
        start \in {58, 62, 59, 48},
        address \in { << 48, 49 >>, << 48, 65 >>, << 48, 97 >>, << 65, 66 >>,
                      << 97, 98 >>, << 48, 71 >>, << 58, 49 >> },
        rest \in { SubSeq(<< 56, 52, 48, 50, 55, 57 >>, 1, n) : n \in 2..6 },
        end \in { << 13, 10 >>, << 10, 13 >>, << 13, 13 >> } }

\* A request, and a response to verify against it.
InitVerify ==
    /\ InitOffline
    /\ transactionID = [hi |-> 0, lo |-> 0]
    /\ \/ \E request \in TcpRequests, response \in TcpResponses :
             pack = [step |-> "read", framer |-> "tcp", request |-> request,
                     response |-> response, err |-> NoErr,
                     mismatch |-> NoMismatch]
       \/ \E request \in AsciiRequests, response \in AsciiResponses :
             pack = [step |-> "read", framer |-> "ascii", request |-> request,
                     response |-> response, err |-> NoErr,
                     mismatch |-> NoMismatch]

\* tcpPackager.Verify, which is verify.
TcpVerify ==
    /\ pack.step = "read"
    /\ pack.framer = "tcp"
    /\ pack' = [pack EXCEPT
           !.step = "verified",
           !.err = verify(pack.request, pack.response),
           !.mismatch = IF verify(pack.request, pack.response)
                            = errTransactionIDMismatch
                        THEN TransactionIDMismatch(pack.request, pack.response)
                        ELSE NoMismatch]
    /\ UNCHANGED transactionID
    /\ Offline

\* asciiPackager.Verify
AsciiVerifyCall ==
    /\ pack.step = "read"
    /\ pack.framer = "ascii"
    /\ pack' = [pack EXCEPT !.step = "verified",
                            !.err = AsciiVerify(pack.request, pack.response)]
    /\ UNCHANGED transactionID
    /\ Offline

NextVerify == TcpVerify \/ AsciiVerifyCall

SpecVerify == InitVerify /\ [][NextVerify]_vars

\* The fields of an MBAP header.
TransactionIDOf(adu) == adu[1] * 256 + adu[2]

ProtocolIDOf(adu) == adu[3] * 256 + adu[4]

UnitIDOf(adu) == adu[7]

\* C27: MBAP verify returns no error exactly when response and request agree
\* on transaction id, protocol id and unit id; a response with another
\* transaction id yields the transaction id mismatch with got = the id of the
\* response and expected = the id of the request, whatever its other fields.
C27_VerifyOrder ==
    (pack.step = "verified" /\ pack.framer = "tcp")
        => /\ pack.err = NoErr
                <=> /\ TransactionIDOf(pack.response) = TransactionIDOf(pack.request)
                    /\ ProtocolIDOf(pack.response) = ProtocolIDOf(pack.request)
                    /\ UnitIDOf(pack.response) = UnitIDOf(pack.request)
           /\ TransactionIDOf(pack.response) # TransactionIDOf(pack.request)
                => /\ pack.err = errTransactionIDMismatch
                   /\ pack.mismatch.got = TransactionIDOf(pack.response)
                   /\ pack.mismatch.expected = TransactionIDOf(pack.request)

\* A response that differs from the request in all three fields has been
\* verified: the error is the transaction id mismatch.
C27_Witness ==
    /\ pack.step = "verified"
    /\ pack.framer = "tcp"
    /\ TransactionIDOf(pack.response) # TransactionIDOf(pack.request)
    /\ ProtocolIDOf(pack.response) # ProtocolIDOf(pack.request)
    /\ UnitIDOf(pack.response) # UnitIDOf(pack.request)
    /\ pack.err = errTransactionIDMismatch

\* The value of two characters read as hexadecimal, -1 when one of them is
\* no hexadecimal digit.
HexValue(chars, i) ==
    IF chars[i] \in (48..57) \cup (65..70) \cup (97..102)
       /\ chars[i + 1] \in (48..57) \cup (65..70) \cup (97..102)
    THEN readHex(chars, i).value
    ELSE -1

\* C28: ASCII Verify accepts a response exactly when its length is at least
\* 9, its length without the start character is even, its first character
\* is ':' or '>', its last two characters are CR LF, and its two slave id
\* characters decode to the value the request's decode to.
C28_AsciiVerify ==
    (pack.step = "verified" /\ pack.framer = "ascii")
        => (pack.err = NoErr
              <=> /\ Len(pack.response) >= 9
                  /\ (Len(pack.response) - 1) % 2 = 0
                  /\ pack.response[1] \in {58, 62}
                  /\ pack.response[Len(pack.response) - 1] = 13
                  /\ pack.response[Len(pack.response)] = 10
                  /\ HexValue(pack.response, 2) >= 0
                  /\ HexValue(pack.response, 2) = HexValue(pack.request, 2))

\* A response that starts with '>' and writes the slave id in small letters
\* has been accepted.
C28_Witness ==
    /\ pack.step = "verified"
    /\ pack.framer = "ascii"
    /\ pack.response[1] = 62
    /\ SubSeq(pack.response, 2, 3) = << 97, 98 >>
    /\ pack.err = NoErr

\* ------------------------------------------------------------ the LRC at work

MaxLrcBytes == 3

\* The bytes pushed: the ends and the middle of the range of a byte.
LrcBytes == {0, 1, 127, 128, 255}

\* var lrc lrc: the sum is 0 and nothing has been pushed.
InitLrc ==
    /\ InitOffline
    /\ transactionID = [hi |-> 0, lo |-> 0]
    /\ pack = [step |-> "lrc", sum |-> 0, pushed |-> << >>, value |-> -1]

\* lrc.push(data...) with one byte or two.
LrcPushCall ==
    /\ pack.step \in {"lrc", "lrcValue"}
    /\ \E n \in 1..2 : \E bytes \in [1..n -> LrcBytes] :
          /\ Len(pack.pushed) + n <= MaxLrcBytes
          /\ pack' = [pack EXCEPT !.step = "lrc",
                                  !.sum = LrcPush(pack.sum, bytes),
                                  !.pushed = pack.pushed \o bytes,
                                  !.value = -1]
    /\ UNCHANGED transactionID
    /\ Offline

\* lrc.value()
LrcValueCall ==
    /\ pack.step = "lrc"
    /\ pack' = [pack EXCEPT !.step = "lrcValue", !.value = LrcValue(pack.sum)]
    /\ UNCHANGED transactionID
    /\ Offline

NextLrc == LrcPushCall \/ LrcValueCall

SpecLrc == InitLrc /\ [][NextLrc]_vars

\* The sum of bytes as a number, in no width.
RECURSIVE SumOf(_)
SumOf(bytes) == IF bytes = << >> THEN 0 ELSE Head(bytes) + SumOf(Tail(bytes))

\* C29: value() is the two's complement of the sum of the pushed bytes
\* modulo 256: the sum of the bytes and value() is 0 modulo 256.
C29_TwosComplement ==
    pack.step = "lrcValue"
        => /\ pack.value \in 0..255
           /\ pack.value = (256 - (SumOf(pack.pushed) % 256)) % 256
           /\ (SumOf(pack.pushed) + pack.value) % 256 = 0

\* value() after bytes whose sum is 128 modulo 256, where -int8 wraps.
C29_Witness ==
    /\ pack.step = "lrcValue"
    /\ Len(pack.pushed) = MaxLrcBytes
    /\ SumOf(pack.pushed) % 256 = 128
    /\ pack.value = 128

\* ------------------------------------------------------------ the client

ErrModbus == "modbus.Error"
ErrEmptyResponse == "response data is empty"

\* No *Error value.
NoMbError == [FunctionCode |-> 0, ExceptionCode |-> 0]

\* A responseError that leaves the exception code out.
responseErrorNoCode(response) ==
    [FunctionCode |-> response.FunctionCode, ExceptionCode |-> 0]

\* responseError: the function code of the response, and its first data
\* byte when it has one.
responseError(response) ==
    [FunctionCode |-> response.FunctionCode,
     ExceptionCode |-> IF Len(response.Data) > 0 THEN response.Data[1] ELSE 0]

\* client.send from the return of transporter.Send on: the error of Send,
\* Verify, Decode, the function code of the response against the one of the
\* request, the empty response.
clientSend(functionCode, request, response, e) ==
    LET v == verify(request, response)
        d == Decode(response)
        Fails(x) == [response |-> NoPdu, err |-> x, mbError |-> NoMbError]
    IN  IF e # NoErr THEN Fails(e)
        ELSE IF v # NoErr THEN Fails(v)
        ELSE IF d.err # NoErr THEN Fails(d.err)
        ELSE IF d.pdu.FunctionCode # functionCode
        THEN [response |-> d.pdu, err |-> ErrModbus,
              mbError |-> responseError(d.pdu)]
        ELSE IF Len(d.pdu.Data) = 0
        THEN [response |-> d.pdu, err |-> ErrEmptyResponse,
              mbError |-> NoMbError]
        ELSE [response |-> d.pdu, err |-> NoErr, mbError |-> NoMbError]

\* The exception reply to ReadInputRegisters: illegal data address.
ExceptionPDU == << FuncCodeReadInputRegisters + 128, 2 >>

\* The server answers the oldest request it holds with an exception.
SrvException ==
    /\ conn # 0
    /\ ~srvClosed
    /\ srvPending # << >>
    /\ inq' = inq \o Frame(Head(srvPending), tcpProtocolIdentifier,
                           1 + Len(ExceptionPDU), SlaveID, ExceptionPDU)
    /\ srvPending' = Tail(srvPending)
    /\ UNCHANGED << pack, rtu, cfg, transactionID, mu, conn, closeTimer,
                    lastActivity, lastAttemptedTransactionID,
                    lastSuccessfulTransactionID, ioDeadline, pc, aduRequest,
                    recoveryDeadline, data, aduResponse, err, wake, srvClosed,
                    calls, faults, dials, stat, wire, run >>

\* What client.send returned to each caller, and for which of its calls.
NoResult == [call |-> 0, response |-> NoPdu, err |-> NoErr, mbError |-> NoMbError]

ResultsOf(pk) ==
    IF pk.step = "client" THEN pk.result ELSE [p \in Callers |-> NoResult]

\* client.send of p has returned from its last call.
ClientDone(p) == ResultsOf(pack)[p].call = calls[p]

\* A client operation starts once the one before it has returned.
ClientCall(p) ==
    /\ ClientDone(p)
    /\ ClientEncode(p)

\* client.send after transporter.Send has returned: it returns to the caller
\* and calls the transporter no more.
ClientResult(p) ==
    /\ pc[p] = "idle"
    /\ ~ClientDone(p)
    /\ pack' = [step |-> "client",
                result |-> [ResultsOf(pack) EXCEPT ![p] =
                    [call |-> calls[p]]
                    @@ clientSend(aduRequest[p][tcpHeaderSize + 1],
                                  aduRequest[p], aduResponse[p], err[p])]]
    /\ UNCHANGED << rtu, cfg, transactionID, mu, conn, closeTimer, lastActivity,
                    lastAttemptedTransactionID, lastSuccessfulTransactionID,
                    ioDeadline, pc, aduRequest, recoveryDeadline, data,
                    aduResponse, err, wake, inq, srvPending, srvClosed, calls,
                    faults, dials, stat, wire, run >>

\* A clock tick, which no caller on its way out of client.send waits for.
ClientTick ==
    /\ \A p \in Callers : ClientDone(p) \/ pc[p] # "idle"
    /\ Tick

NextClient ==
    \/ \E p \in Callers :
          \/ ClientCall(p)
          \/ SendLock(p)
          \/ SendLoop(p)
          \/ SendWrite(p)
          \/ SendReadHeader(p)
          \/ SendReadBody(p)
          \/ SendWake(p)
          \/ ClientResult(p)
    \/ TimerFire
    \/ CloseIdleLock
    \/ CloseIdleBody
    \/ SrvReply
    \/ SrvException
    \/ SrvFault
    \/ SrvClose
    \/ ClientTick

SpecClient == Init /\ [][NextClient]_vars

\* The frame is an exception reply to the request: the ids of the request,
\* and its function code with the high bit set.
ExceptionReplyTo(request, response) ==
    /\ Len(response) > tcpHeaderSize
    /\ verify(request, response) = NoErr
    /\ Decode(response).err = NoErr
    /\ response[tcpHeaderSize + 1] = request[tcpHeaderSize + 1] + 128

\* The last call of p has returned the exception of an exception reply.
ExceptionReturned(p) ==
    /\ calls[p] > 0
    /\ ClientDone(p)
    /\ err[p] = NoErr
    /\ ExceptionReplyTo(aduRequest[p], aduResponse[p])

MaxReadBits == 2000
MaxReadRegisters == 125
MaxWriteCoils == 1968
MaxWriteRegisters == 123
MaxReadWriteRead == 125
MaxReadWriteWrite == 121

\* WriteSingleCoil: 0xFF00 (ON) and 0x0000 (OFF)
CoilOn == 65280
CoilOff == 0

ErrArgument == "modbus: argument out of range"

\* dataBlock: the values as big-endian uint16.
RECURSIVE dataBlock(_)
dataBlock(value) ==
    IF value = << >> THEN << >>
    ELSE PutUint16(Head(value)) \o dataBlock(Tail(value))

\* dataBlockSuffix: the values, the length of the suffix in one byte, the
\* suffix.
dataBlockSuffix(suffix, value) ==
    dataBlock(value) \o << Len(suffix) % 256 >> \o suffix

\* The function code of each operation that checks its arguments.
FacadeFunctionCode ==
    [ReadCoils |-> readCoilsFunctionCode,
     ReadDiscreteInputs |-> readDiscreteInputsFunctionCode,
     ReadHoldingRegisters |-> readHoldingRegisterFunctionCode,
     ReadInputRegisters |-> readInputRegisterFunctionCode,
     WriteSingleCoil |-> writeSingleCoilFunctionCode,
     WriteMultipleCoils |-> writeMultipleCoilsFunctionCode,
     WriteMultipleRegisters |-> writeMultipleRegisterFunctionCode,
     ReadWriteMultipleRegisters |-> readWriteMultipleRegisterFunctionCode]

\* A check of the quantity that lets one more than the largest through.
QuantityRejectedOffByOne(quantity, largest) ==
    quantity < 1 \/ quantity > largest + 1

\* quantity < 1 || quantity > largest
QuantityRejected(quantity, largest) == quantity < 1 \/ quantity > largest

\* The checks at the head of the operation: the call (its name, its quantity
\* or value, and its quantity to write) is turned down.
ArgumentRejected(op, a, b) ==
    IF op \in {"ReadCoils", "ReadDiscreteInputs"}
    THEN QuantityRejected(a, MaxReadBits)
    ELSE IF op \in {"ReadHoldingRegisters", "ReadInputRegisters"}
    THEN QuantityRejected(a, MaxReadRegisters)
    ELSE IF op = "WriteSingleCoil" THEN a # CoilOn /\ a # CoilOff
    ELSE IF op = "WriteMultipleCoils" THEN QuantityRejected(a, MaxWriteCoils)
    ELSE IF op = "WriteMultipleRegisters"
    THEN QuantityRejected(a, MaxWriteRegisters)
    ELSE QuantityRejected(a, MaxReadWriteRead)
         \/ QuantityRejected(b, MaxReadWriteWrite)

\* The data of the request PDU, for address 0 and a value of two bytes.
FacadeData(op, a, b) ==
    IF op \in {"WriteMultipleCoils", "WriteMultipleRegisters"}
    THEN dataBlockSuffix(<< 0, 1 >>, << 0, a >>)
    ELSE IF op = "ReadWriteMultipleRegisters"
    THEN dataBlockSuffix(<< 0, 1 >>, << 0, a, 0, b >>)
    ELSE dataBlock(<< 0, a >>)

\* The arguments tried: both ends of the range and their neighbours outside,
\* and for the coil the two states and two other values.
FacadeArguments(op) ==
    LET Ends(largest) == {0, 1, largest, largest + 1, Pow16 - 1}
    IN  IF op \in {"ReadCoils", "ReadDiscreteInputs"}
        THEN Ends(MaxReadBits) \X {0}
        ELSE IF op \in {"ReadHoldingRegisters", "ReadInputRegisters"}
        THEN Ends(MaxReadRegisters) \X {0}
        ELSE IF op = "WriteSingleCoil" THEN {CoilOff, CoilOn, 1, 255} \X {0}
        ELSE IF op = "WriteMultipleCoils" THEN Ends(MaxWriteCoils) \X {0}
        ELSE IF op = "WriteMultipleRegisters"
        THEN Ends(MaxWriteRegisters) \X {0}
        ELSE {0, 1, MaxReadWriteRead, MaxReadWriteRead + 1}
             \X {0, MaxReadWriteWrite, MaxReadWriteWrite + 1}

\* A client operation: its arguments are checked; when they are turned down
\* it returns the error, and else it builds the PDU and client.send has the
\* packager encode it.
FacadeCall(p) ==
    /\ pc[p] = "idle"
    /\ calls[p] < Quota(p)
    /\ calls' = [calls EXCEPT ![p] = @ + 1]
    /\ \E op \in DOMAIN FacadeFunctionCode : \E arg \in FacadeArguments(op) :
          /\ pack' = [step |-> "facade", op |-> op, a |-> arg[1], b |-> arg[2],
                      err |-> IF ArgumentRejected(op, arg[1], arg[2])
                              THEN ErrArgument ELSE NoErr]
          /\ IF ArgumentRejected(op, arg[1], arg[2])
             THEN UNCHANGED << transactionID, aduRequest, pc, err, aduResponse,
                               stat >>
             ELSE /\ transactionID' = NextTransactionID(transactionID)
                  /\ aduRequest' = [aduRequest EXCEPT ![p] =
                         Encode(transactionID', SlaveID, FacadeFunctionCode[op],
                                FacadeData(op, arg[1], arg[2]))]
                  /\ pc' = [pc EXCEPT ![p] = "encoded"]
                  /\ err' = [err EXCEPT ![p] = NoErr]
                  /\ aduResponse' = [aduResponse EXCEPT ![p] = << >>]
                  /\ stat' = [stat EXCEPT ![p] = NoStat]
    /\ UNCHANGED << rtu, cfg, mu, conn, closeTimer, lastActivity,
                    lastAttemptedTransactionID, lastSuccessfulTransactionID,
                    ioDeadline, recoveryDeadline, data, wake,
                    inq, srvPending, srvClosed, faults, dials, wire, run >>

NextFacade ==
    \/ \E p \in Callers :
          \/ FacadeCall(p)
          \/ SendLock(p)
          \/ SendLoop(p)
          \/ SendWrite(p)
          \/ SendReadHeader(p)
          \/ SendReadBody(p)
          \/ SendWake(p)
    \/ TimerFire
    \/ CloseIdleLock
    \/ CloseIdleBody
    \/ SrvReply
    \/ SrvFault
    \/ SrvClose
    \/ Tick

SpecFacade == InitNew /\ [][NextFacade]_vars

\* The call is outside the ranges the operations allow.
OutsideRange(op, a, b) ==
    \/ op \in {"ReadCoils", "ReadDiscreteInputs"} /\ a \notin 1..2000
    \/ op \in {"ReadHoldingRegisters", "ReadInputRegisters"} /\ a \notin 1..125
    \/ op = "WriteMultipleCoils" /\ a \notin 1..1968
    \/ op = "WriteMultipleRegisters" /\ a \notin 1..123
    \/ op = "ReadWriteMultipleRegisters" /\ (a \notin 1..125 \/ b \notin 1..121)
    \/ op = "WriteSingleCoil" /\ a \notin {0, 65280}

\* This step is a client operation.
FacadeCalled == \E p \in Callers : calls'[p] = calls[p] + 1

\* C31: a client operation whose argument is outside its range returns an
\* error without Encode or Send: the transaction counter, the connection,
\* the bytes written and the caller's place are as before.
C31_RejectedUntouched ==
    [][(FacadeCalled /\ OutsideRange(pack'.op, pack'.a, pack'.b))
          => /\ pack'.err = ErrArgument
             /\ UNCHANGED << transactionID, aduRequest, pc, mu, conn, dials,
                             wire, stat, srvPending, inq, closeTimer,
                             lastAttemptedTransactionID >>]_vars

\* A read of 2001 coils has been turned down on a handler that has not
\* dialled: its counter stands where it started.
C31_Witness ==
    /\ pack.step = "facade"
    /\ pack.op = "ReadCoils"
    /\ pack.a = 2001
    /\ pack.err = ErrArgument
    /\ conn = 0
    /\ dials = 0
    /\ wire = NoWire
    /\ \A p \in Callers : calls[p] = 1 /\ pc[p] = "idle"

\* ------------------------------------------------------------ a rejected frame with a body

\* The body a faulty server sends after a header whose length field
\* processResponse rejects: bytes that are in no header of the model.
GarbledBody == Fill(tcpHeaderSize + 1, 170)

\* The server answers the oldest request it holds with a frame whose length
\* field is too large, and sends the body along.
SrvGarbled ==
    /\ conn # 0
    /\ ~srvClosed
    /\ srvPending # << >>
    /\ faults < MaxFaults
    /\ faults' = faults + 1
    /\ inq' = inq \o Frame(Head(srvPending), tcpProtocolIdentifier,
                           tcpMaxLength - tcpHeaderSize + 2, SlaveID, GarbledBody)
    /\ srvPending' = Tail(srvPending)
    /\ UNCHANGED << pack, rtu, cfg, transactionID, mu, conn, closeTimer,
                    lastActivity, lastAttemptedTransactionID,
                    lastSuccessfulTransactionID, ioDeadline, pc, aduRequest,
                    recoveryDeadline, data, aduResponse, err, wake, srvClosed,
                    calls, dials, stat, wire, run >>

NextDrain == Next \/ SrvGarbled

SpecDrain == Init /\ [][NextDrain]_vars

\* This step, p reads a header whose length field processResponse rejects,
\* and the connection stays.
HeaderRejected(p) ==
    /\ HeaderRead(p)
    /\ HeaderLengthRejected(Uint16(Take(inq, tcpHeaderSize), 5))
    /\ conn' = conn

\* C32: after a response is rejected with the header length error, the
\* drain has removed every inbound byte that was pending on the connection,
\* so that no byte of the rejected frame is read as a header.
C32_DrainTakesAll ==
    [][\A p \in Callers : HeaderRejected(p) => inq' = << >>]_vars

\* ------------------------------------------------------------ the recorded ids

\* This step, the Send of p returns e.
SendReturned(p, e) == pc[p] \in SendPcs /\ Returned(p, e)

\* C33: when Send returns a response without error, the last successful and
\* the last attempted transaction id are the id of the request; a Send that
\* returns an error leaves the last successful id as it was: the id changes
\* in no other step than a return without error.
C33_RecordedIds ==
    [][\A p \in Callers :
         /\ SendReturned(p, NoErr)
               => /\ lastSuccessfulTransactionID' = Tid(aduRequest[p])
                  /\ lastAttemptedTransactionID' = Tid(aduRequest[p])
                  /\ Tid(aduResponse'[p]) = Tid(aduRequest[p])
         /\ (pc[p] \in SendPcs /\ ~SendReturned(p, NoErr))
               => lastSuccessfulTransactionID' = lastSuccessfulTransactionID]_vars

\* A Send has returned the mismatch error for a frame with another id, and
\* the last successful id is not that id.
C33_Witness ==
    \E p \in Callers :
        /\ pc[p] = "idle"
        /\ err[p] = errTransactionIDMismatch
        /\ aduResponse[p] # << >>
        /\ lastSuccessfulTransactionID # Tid(aduResponse[p])
        /\ lastAttemptedTransactionID = Tid(aduRequest[p])

\* ------------------------------------------------------- handlers and clones

\* RTUClientHandler embeds an rtuPackager by value and a pointer to the
\* rtuSerialTransporter.  Clone returns a handler with the same pointer and
\* a packager of its own, whose SlaveID is the zero value.  The model's
\* transport variables are the transporter number 1; a handler that does not
\* exist yet has transporter 0.
Handlers == {"original", "clone"}

HandlerSlaveIDs == {1, 2}

\* The goroutine that calls through each handler.
HandlerOf(p) == IF p \in Callers THEN "original" ELSE "clone"

NewHandler == [SlaveID     |-> [h \in Handlers |-> 0],
               transporter |-> [h \in Handlers |-> IF h = "original" THEN 1 ELSE 0]]

\* A SetSlave that writes a packager all the handlers share.
SetSlaveShared(ids, h, slaveID) == [g \in DOMAIN ids |-> slaveID]

\* rtuPackager.SetSlave: mb.SlaveID = id, on the packager of the handler.
SetSlave(ids, h, slaveID) == [ids EXCEPT ![h] = slaveID]

\* RTUClientHandler.Clone.
Clone(pk) == [pk EXCEPT !.SlaveID["clone"] = 0,
                        !.transporter["clone"] = pk.transporter["original"]]

InitHandlers ==
    /\ InitPort
    /\ cfg \in [Timeout : Timeouts, IdleTimeout : {RtuFrameGap},
                LinkRecoveryTimeout : {0}, ProtocolRecoveryTimeout : {0}]
    /\ rtu = NoRtu
    /\ pack = NewHandler
    /\ lastActivity = now - Max(cfg.IdleTimeout, RtuFrameGap)
    /\ pc = [p \in Procs \cup {Timer} |-> "idle"]
    /\ inq = << >>
    /\ srvClosed = FALSE

HandlerClone ==
    /\ pack.transporter["clone"] = 0
    /\ pack' = Clone(pack)
    /\ UNCHANGED << rtu, cfg, transactionID, mu, conn, closeTimer, lastActivity,
                    lastAttemptedTransactionID, lastSuccessfulTransactionID,
                    ioDeadline, pc, aduRequest, recoveryDeadline, data,
                    aduResponse, err, wake, inq, srvPending, srvClosed, calls,
                    faults, dials, stat, wire, run >>

\* SetSlave on h, by the goroutine that is about to call through h.
HandlerSetSlave(h) ==
    /\ pack.transporter[h] # 0
    /\ \E p \in Procs : HandlerOf(p) = h /\ pc[p] = "idle" /\ calls[p] < Quota(p)
    /\ \E slaveID \in HandlerSlaveIDs \ {pack.SlaveID[h]} :
          pack' = [pack EXCEPT !.SlaveID = SetSlave(@, h, slaveID)]
    /\ UNCHANGED << rtu, cfg, transactionID, mu, conn, closeTimer, lastActivity,
                    lastAttemptedTransactionID, lastSuccessfulTransactionID,
                    ioDeadline, pc, aduRequest, recoveryDeadline, data,
                    aduResponse, err, wake, inq, srvPending, srvClosed, calls,
                    faults, dials, stat, wire, run >>

\* client.send through the handler of p: the packager of that handler
\* encodes, then the transporter of that handler sends.
HandlerCall(p) ==
    /\ pc[p] = "idle"
    /\ calls[p] < Quota(p)
    /\ pack.transporter[HandlerOf(p)] = 1
    /\ calls' = [calls EXCEPT ![p] = @ + 1]
    /\ aduRequest' = [aduRequest EXCEPT ![p] =
                         RtuEncode(pack.SlaveID[HandlerOf(p)],
                                   readInputRegisterFunctionCode, << 0, 0, 0, 1 >>)]
    /\ aduResponse' = [aduResponse EXCEPT ![p] = << >>]
    /\ err' = [err EXCEPT ![p] = NoErr]
    /\ pc' = [pc EXCEPT ![p] = "rtuCalled"]
    /\ UNCHANGED << pack, rtu, cfg, transactionID, mu, conn, closeTimer, lastActivity,
                    lastAttemptedTransactionID, lastSuccessfulTransactionID,
                    ioDeadline, recoveryDeadline, data, wake, inq, srvPending,
                    srvClosed, faults, dials, stat, wire, run >>

NextHandlers ==
    \/ HandlerClone
    \/ \E h \in Handlers : HandlerSetSlave(h)
    \/ \E p \in Procs :
          \/ HandlerCall(p)
          \/ RtuSendLock(p)
          \/ RtuSendConnect(p)
          \/ RtuSendWrite(p)
          \/ RtuSendSent(p)
          \/ RtuRead(p)
    \/ TimerFire
    \/ SerialCloseIdleLock
    \/ SerialCloseIdleBody
    \/ SerialTransmit
    \/ SerialTick

SpecHandlers == InitHandlers /\ [][NextHandlers]_vars

\* C34: the clone has the transporter of the original, the Sends through
\* the two handlers exclude each other under its mutex, a request carries
\* the slave id of the handler it was encoded by, and a step that changes
\* the slave id of one handler leaves the slave id of the other alone.
C34_CloneSharesTransport ==
    /\ [](/\ pack.transporter["clone"] \in {0, pack.transporter["original"]}
          /\ \A p, q \in Procs :
                /\ (pc[p] \in SerialPcs /\ pc[q] \in SerialPcs) => p = q
                /\ pc[p] \in SerialPcs => mu = p)
    /\ [][/\ \A p \in Procs :
                (pc[p] = "idle" /\ pc'[p] = "rtuCalled")
                   => aduRequest'[p][1] = pack.SlaveID[HandlerOf(p)]
          /\ \A g, h \in Handlers :
                (g # h /\ pack.transporter[g] # 0
                       /\ pack'.SlaveID[h] # pack.SlaveID[h])
                   => pack'.SlaveID[g] = pack.SlaveID[g]]_vars

\* A request with slave id 1 encoded by the original is being sent while a
\* request with slave id 2 encoded by the clone waits for the mutex.
C34_Witness ==
    /\ pc["c1"] \in SerialPcs
    /\ pc["c2"] = "rtuCalled"
    /\ aduRequest["c1"][1] = 1
    /\ aduRequest["c2"][1] = 2
    /\ pack.SlaveID["original"] = 1
    /\ pack.SlaveID["clone"] = 2

\* ------------------------------------------------------- no deadlock on the mutex

\* The two callers of SpecShared under a scheduler that lets every goroutine
\* that can take a step take it: whoever waits in mu.Lock() gets the mutex
\* once it stays free, a dial, a write, a read and a sleep end.
FairnessShared ==
    /\ WF_vars(Tick)
    /\ WF_vars(TimerFire)
    /\ WF_vars(CloseIdleLock)
    /\ WF_vars(CloseIdleBody)
    /\ \A p \in Procs :
          /\ WF_vars(SendLock(p))
          /\ WF_vars(SendLoop(p))
          /\ WF_vars(SendWrite(p))
          /\ WF_vars(SendReadHeader(p))
          /\ WF_vars(SendReadBody(p))
          /\ WF_vars(SendWake(p))
          /\ WF_vars(ConnectBody(p))
          /\ WF_vars(CloseBody(p))

SpecSharedLive == InitShared /\ [][NextShared]_vars /\ FairnessShared

\* Some Send has written as often as the model lets it.
WriteBoundReached == \E q \in Procs : AtWriteBound(q)

\* C35: who holds the mutex is inside the body of an operation, so nobody
\* who waits in mu.Lock() holds it already; a Send that waits for the mutex
\* returns and an idle callback that waits for it completes, whatever the
\* interleaving of Send, Connect, Close and the callback; the callback goes
\* into its body only in a step in which no Send, Connect or Close is in
\* its own.
C35_NoDeadlock ==
    /\ [](\A g \in Procs \cup {Timer} : mu = g => InBody(g))
    /\ \A p \in Procs :
          (pc[p] = "encoded") ~> (pc[p] = "idle" \/ WriteBoundReached)
    /\ (pc[Timer] = "fired") ~> (pc[Timer] = "idle" \/ WriteBoundReached)
    /\ [][(pc[Timer] = "fired" /\ pc'[Timer] = "closeIdle")
             => \A p \in Procs : ~InBody(p)]_vars

\* The idle callback has fired while one caller reads inside Send with the
\* mutex and the other caller waits for the mutex.
C35_Witness ==
    \E p, q \in Procs :
        /\ p # q
        /\ mu = p
        /\ pc[p] \in {"readHeader", "readBody"}
        /\ pc[q] = "encoded"
        /\ pc[Timer] = "fired"
        /\ ~closeTimer.armed

\* ------------------------------------------------------- the RTU frame delay

\* frameDelay: 38500000 / BaudRate microseconds up to 19200 baud, 1750
\* microseconds above it and for a baud rate that is not positive.  The
\* division is the integer division of Go; the durations are in
\* microseconds.
FastBaudRate == 19200
FastFrameDelay == 1750
FrameMicros == 38500000
FastCharacterDelay == 750
CharacterMicros == 16500000

\* The test's precision, in thousandths.
PrecisionPerMille == 7

\* The delay between characters (1.5 characters) in the place of the delay
\* between frames.
characterDelay(BaudRate) ==
    IF BaudRate <= 0 \/ BaudRate > FastBaudRate
    THEN FastCharacterDelay
    ELSE CharacterMicros \div BaudRate

frameDelay(BaudRate) ==
    IF BaudRate <= 0 \/ BaudRate > FastBaudRate
    THEN FastFrameDelay
    ELSE FrameMicros \div BaudRate

BaudRates == (1..(FastBaudRate + 100)) \cup {-9600, 0, 38400, 57600, 115200}

InitTiming ==
    /\ InitOffline
    /\ transactionID = [hi |-> 0, lo |-> 0]
    /\ \E b \in BaudRates : pack = [step |-> "BaudRate", BaudRate |-> b, fd |-> 0]

\* mb.frameDelay()
FrameDelayCall ==
    /\ pack.step = "BaudRate"
    /\ pack' = [pack EXCEPT !.step = "frameDelay", !.fd = frameDelay(pack.BaudRate)]
    /\ UNCHANGED transactionID
    /\ Offline

NextTiming == FrameDelayCall

SpecTiming == InitTiming /\ [][NextTiming]_vars

Abs(x) == IF x < 0 THEN -x ELSE x

\* C36: up to 19200 baud the frame delay times the baud rate is 38.5 * 10^6
\* within 0.7 %, which is 3.5 characters of 11 bits in microseconds; above
\* 19200 baud the frame delay is 1750 microseconds.
C36_FrameDelay ==
    (pack.step = "frameDelay" /\ pack.BaudRate > 0)
        => IF pack.BaudRate <= FastBaudRate
           THEN Abs(pack.fd * pack.BaudRate - FrameMicros)
                    <= (PrecisionPerMille * FrameMicros) \div 1000
           ELSE pack.fd = FastFrameDelay

\* The frame delay at 19200 baud, where the division leaves a remainder, and
\* the one at 38400 baud.
C36_Witness ==
    /\ pack.step = "frameDelay"
    /\ \/ pack.BaudRate = FastBaudRate /\ pack.fd = 2005
       \/ pack.BaudRate = 38400 /\ pack.fd = FastFrameDelay

\* ------------------------------------------------------- no idle timeout, no recovery

\* C37: with IdleTimeout = 0 a Send writes its request at most once, drops
\* no reply, closes nothing and does not sleep, and the step in which a
\* dial, a write or a read ends in an error is the step in which Send
\* returns that error, whatever the two recovery timeouts are.
C37_NoRecovery ==
    [][\A p \in Callers :
         cfg.IdleTimeout = 0
            => /\ stat'[p].writes <= 1
               /\ stat'[p].closes = 0
               /\ stat'[p].discards = 0
               /\ pc'[p] # "sleep"
               /\ ErrorStep(p) => (Returned(p, err'[p]) /\ conn' = conn)]_vars

\* With both recovery timeouts set and no idle timeout, a Send has returned
\* the end of the stream after one write; the connection is still there.
C37_Witness ==
    \E p \in Callers :
        /\ cfg.IdleTimeout = 0
        /\ cfg.LinkRecoveryTimeout > 0
        /\ cfg.ProtocolRecoveryTimeout > 0
        /\ pc[p] = "idle"
        /\ err[p] = ErrEOF
        /\ stat[p].writes = 1
        /\ conn # 0

\* ------------------------------------------------------- where Send closes

\* A new TCP handler whose IdleTimeout is twice its Timeout: a read times
\* out while the recovery deadline of the Send is ahead.
PatientIdleTimeout == 4

InitPatient ==
    /\ InitPort
    /\ cfg \in [Timeout : Timeouts, IdleTimeout : {PatientIdleTimeout},
                LinkRecoveryTimeout : LinkRecoveryTimeouts,
                ProtocolRecoveryTimeout : ProtocolRecoveryTimeouts]
    /\ rtu = NoRtu
    /\ pack = NoPack
    /\ lastActivity = 0
    /\ pc = [p \in Procs \cup {Timer} |-> "idle"]
    /\ inq = << >>
    /\ srvClosed = FALSE

\* That handler, and the handlers of Spec, one of which has a connection
\* left by a Send that timed out.
InitCached == Init \/ InitPatient

SpecPatient == InitCached /\ [][Next]_vars

\* The errors of a write, of a read that timed out and of a frame that was
\* read and rejected.
KeptOpenErrors == {ErrWrite, ErrTimeout, ErrTCPHeaderLength, ErrProtocolID,
                   ErrUnitID, errTransactionIDMismatch}

BodyFailed(p) ==
    /\ pc[p] = "readBody"
    /\ pc'[p] # "readBody"
    /\ err'[p] \in {ErrTimeout, ErrEOF, ErrUnexpectedEOF}

\* C39: when the read of the body fails, the request is written again on the
\* same connection if ProtocolRecoveryTimeout > 0 and the recovery deadline
\* is ahead, and else the error of the read is returned; the connection is
\* not closed and Send does not sleep, whatever LinkRecoveryTimeout is.
C39_BodyFailure ==
    [][\A p \in Callers :
         BodyFailed(p)
            => /\ conn' = conn
               /\ conn # 0
               /\ stat'[p].closes = stat[p].closes
               /\ pc'[p] # "sleep"
               /\ IF cfg.ProtocolRecoveryTimeout > 0 /\ later < recoveryDeadline[p]
                  THEN Resent(p)
                  ELSE Returned(p, err'[p])]_vars

\* With both recovery timeouts set, the read of a body has timed out before
\* the recovery deadline and the Send is at the head of its loop again, on
\* the connection it had.
C39_Witness ==
    \E p \in Callers :
        /\ pc[p] = "loop"
        /\ err[p] = ErrTimeout
        /\ cfg.LinkRecoveryTimeout > 0
        /\ cfg.ProtocolRecoveryTimeout > 0
        /\ stat[p].writes = 1
        /\ stat[p].closes = 0
        /\ conn # 0

\* ------------------------------------------------------- the bounds of the RTU reader

\* C40: the reader never holds more bytes than its buffer has, and while it
\* is in stateReadPayload the count of bytes it has still to store is at
\* least 1: no byte is stored past the buffer and the count, a byte, never
\* goes below zero.
C40_ReaderBounds ==
    /\ Len(rtu.data) <= rtuMaxSize
    /\ rtu.toRead \in 0..255
    /\ (rtu.state = stateReadPayload /\ ~rtu.returned) => rtu.toRead >= 1

\* The reader has returned a frame that fills the buffer: 251 bytes after the
\* length byte, all stored, and none left to store.
C40_Witness ==
    /\ rtu.returned
    /\ rtu.err = NoErr
    /\ rtu.length = rtuMaxSize - 5
    /\ rtu.toRead = 0
    /\ Len(rtu.data) = rtuMaxSize
====
